---- MODULE Spec2Model ----
(***************************************************************************)
(* Compliance monitoring core of MediMindPlus:                             *)
(*   ComplianceMonitor  (compliance/monitoring/compliance_monitor.py)      *)
(*   SecurityMonitor    (compliance/security/tools/                        *)
(*                       security-monitoring-implementation.py)            *)
(* Each subsystem has its own specification over the shared variables.     *)
(***************************************************************************)
EXTENDS Integers, Sequences, FiniteSets, TLC

(***************************************************************************)
(* Bounds of the model.  AuditBufferMaxlen and FlushBatchSize stand for    *)
(* deque(maxlen=1000) and the batch limit 100 of the flusher, scaled down. *)
(***************************************************************************)
MaxEvents == 5
AuditBufferMaxlen == 3
FlushBatchSize == 2
MaxViolations == 4
MaxSweepViolations == 2

VARIABLES
    monitoring_active,   \* ComplianceMonitor.monitoring_active
    audit_buffer,        \* ComplianceMonitor.audit_buffer: deque of events, oldest first
    events_to_flush,     \* local of _audit_log_flusher: the batch of the last flush attempt
    flush_result,        \* outcome of the last flush attempt: "none", "ok", "failed"
    audit_logs,          \* committed rows of table audit_logs (event ids, insertion order)
    txn_inserts,         \* rows inserted on db_connection but not yet committed
    txn_aborted,         \* the connection's transaction is in the failed state
    next_event,          \* number of events handed to log_audit_event so far
    evicted,             \* event ids dropped by the bounded deque
    db_connection,       \* ComplianceMonitor.db_connection: "open" or "closed"
    ingest_outcome,      \* how the last log_audit_event call ended: "none", "returned", "raised"
    last_event,          \* type and hour of the last event of an observed log_audit_event call
    clock,               \* datetime.utcnow(), in the time unit of the specification
    notification_settings, \* config['notifications']: email_enabled, slack_enabled
    violations_table,    \* rows of table compliance_violations
    notifications,       \* violation ids for which a notification was dispatched, in order
    violation_counts,    \* ComplianceMonitor.violation_counts
    handled,             \* violations passed to _handle_violation, in call order
    next_violation,      \* number of violation ids generated so far
    rules,               \* ComplianceMonitor.rules: rule_id -> ComplianceRule
    last_check_times,    \* ComplianceMonitor.last_check_times: rule_id -> time (a dict)
    sched_pc,            \* _scheduled_checks: "sleep" (asyncio.sleep) or "sweep" (in the for loop)
    current_time,        \* local current_time of the running sweep
    sweep_queue,         \* rules the for loop of the sweep has still to visit
    check_result,        \* what the last _execute_rule_check call did
    last_eval_tick,      \* rule_id -> current_time of the sweep in which its check last returned
    sweep_violation,     \* the violation the sweep has passed to _handle_violation, not yet stored
    fw_pc,               \* _check_framework_compliance: "idle", "rules" (for loop), "status", "raised"
    fw_framework,        \* its argument
    fw_queue,            \* framework_rules the for loop has still to visit
    fw_results,          \* its local results
    fw_raised,           \* rule ids whose _execute_rule_check raised during the call
    cc_pc,               \* check_compliance: "idle", "loop" (for fw in ...), "returned", "raised"
    cc_queue,            \* frameworks_to_check the for loop has still to visit
    cc_results,          \* its local results
    cm_pc,               \* _continuous_monitoring: "top" (at the while test) or "sleep"
    cm_errors,           \* iterations of it whose exception was logged
    replayed,            \* a violation its caller hands to _handle_violation repeatedly
    handle_calls,        \* how the calls with that violation ended, in order
    alert_suppression,   \* SecurityMonitor.alert_suppression: alert key -> time of the last alert
    alerts,              \* stored SecurityAlert rows, in insertion order
    alert_notifications, \* notifications dispatched for alerts: [alert_id, channel]
    security_events,     \* rows of table security_events, in insertion order
    completed_events,    \* event ids whose log_security_event call returned normally
    last_call,           \* arguments and outcome of the last direct _create_alert call
    create_calls,        \* the concurrent _create_alert calls: where each one is
    risk_input,          \* the event and the lookups _calculate_risk_score is applied to
    risk_score           \* its result, in hundredths

bufVars == <<monitoring_active, audit_buffer, events_to_flush, flush_result,
             audit_logs, txn_inserts, txn_aborted, next_event, evicted, db_connection,
             ingest_outcome, last_event>>
vhVars == <<violations_table, notifications, violation_counts, handled, next_violation,
            notification_settings>>

schedVars == <<rules, last_check_times, sched_pc, current_time, sweep_queue,
               check_result, last_eval_tick, sweep_violation>>

vars == <<monitoring_active, audit_buffer, events_to_flush, flush_result,
          audit_logs, txn_inserts, txn_aborted, next_event, evicted, db_connection,
          ingest_outcome, last_event, clock,
          notification_settings, violations_table, notifications,
          violation_counts, handled, next_violation, rules, last_check_times,
          sched_pc, current_time, sweep_queue, check_result, last_eval_tick, sweep_violation,
          fw_pc, fw_framework, fw_queue, fw_results, fw_raised, cc_pc, cc_queue,
          cc_results, cm_pc, cm_errors, replayed, handle_calls,
          alert_suppression, alerts, alert_notifications, security_events,
          completed_events, last_call, create_calls, risk_input, risk_score>>

secVars == <<alert_suppression, alerts, alert_notifications, security_events,
             completed_events, last_call, create_calls, risk_input, risk_score>>

ccVars == <<cc_pc, cc_queue, cc_results>>
cmVars == <<cm_pc, cm_errors>>
fwVars == <<fw_pc, fw_framework, fw_queue, fw_results, fw_raised, cc_pc, cc_queue, cc_results>>
replayVars == <<replayed, handle_calls>>

Frameworks == {"hipaa", "gdpr", "sox"}
Severities == {"low", "medium", "high", "critical"}

Range(s) == {s[i] : i \in DOMAIN s}

(***************************************************************************)
(* collections.deque with maxlen, as used for audit_buffer.                *)
(***************************************************************************)
\* variant: a full deque drops its newest element instead of its oldest
DequeAppendDropNewest(d, x, maxlen) ==
    IF Len(d) >= maxlen THEN Append(SubSeq(d, 1, Len(d) - 1), x) ELSE Append(d, x)

DequeAppend(d, x, maxlen) ==
    IF Len(d) >= maxlen THEN Append(Tail(d), x) ELSE Append(d, x)

DequeAppendLeft(d, x, maxlen) ==
    IF Len(d) >= maxlen THEN <<x>> \o SubSeq(d, 1, Len(d) - 1) ELSE <<x>> \o d

RECURSIVE DequeExtendLeft(_, _, _)
DequeExtendLeft(d, xs, maxlen) ==
    IF xs = <<>> THEN d
    ELSE DequeExtendLeft(DequeAppendLeft(d, Head(xs), maxlen), Tail(xs), maxlen)

RECURSIVE Reversed(_)
Reversed(s) == IF s = <<>> THEN <<>> ELSE Append(Reversed(Tail(s)), Head(s))

(***************************************************************************)
(* The popleft loop of _audit_log_flusher: result is <<batch, rest>>.      *)
(***************************************************************************)
RECURSIVE PopBatch(_, _)
PopBatch(buf, batch) ==
    IF buf # <<>> /\ Len(batch) < FlushBatchSize
    THEN PopBatch(Tail(buf), Append(batch, Head(buf)))
    ELSE <<batch, buf>>

(***************************************************************************)
(* _flush_audit_events: the INSERT loop on the shared connection.  fault   *)
(* is the failure the environment injects: kind "none", "py" (the          *)
(* arguments of the INSERT raise before the statement is sent, e.g.        *)
(* json.dumps(event.details)) or "sql" (the server rejects the statement), *)
(* at the pos-th event.  A statement on a failed transaction raises, and   *)
(* so does an event_id that is already inserted (event_id is UNIQUE); the  *)
(* code never rolls back.  Result: [txn, aborted, ok].                     *)
(***************************************************************************)
RECURSIVE InsertEvents(_, _, _, _, _, _)
InsertEvents(events, i, logs, txn, aborted, fault) ==
    IF i > Len(events) THEN [txn |-> txn, aborted |-> aborted, ok |-> TRUE]
    ELSE IF fault.kind = "py" /\ fault.pos = i THEN [txn |-> txn, aborted |-> aborted, ok |-> FALSE]
    ELSE IF aborted THEN [txn |-> txn, aborted |-> TRUE, ok |-> FALSE]
    ELSE IF events[i] \in Range(logs) \cup Range(txn) THEN [txn |-> txn, aborted |-> TRUE, ok |-> FALSE]
    ELSE IF fault.kind = "sql" /\ fault.pos = i THEN [txn |-> txn, aborted |-> TRUE, ok |-> FALSE]
    ELSE InsertEvents(events, i + 1, logs, Append(txn, events[i]), aborted, fault)

(***************************************************************************)
(* The except branch of _flush_audit_events:                               *)
(*     self.audit_buffer.extendleft(reversed(events))                      *)
(***************************************************************************)
\* variant: the batch is put back without reversed()
RequeueUnreversed(buf, events) == DequeExtendLeft(buf, events, AuditBufferMaxlen)

Requeue(buf, events) == DequeExtendLeft(buf, Reversed(events), AuditBufferMaxlen)

FlushAuditEvents(events, buf, logs, txn, aborted, fault) ==
    LET r == InsertEvents(events, 1, logs, txn, aborted, fault)
    IN  IF r.ok
        THEN [buffer |-> buf, logs |-> logs \o r.txn, txn |-> <<>>,
              aborted |-> r.aborted, result |-> "ok"]
        ELSE [buffer |-> Requeue(buf, events), logs |-> logs, txn |-> r.txn,
              aborted |-> r.aborted, result |-> "failed"]

FlushFaults(n) == {[kind |-> "none", pos |-> 0]}
                    \cup {[kind |-> k, pos |-> p] : k \in {"py", "sql"}, p \in 1..n}

(***************************************************************************)
(* One iteration of the while loop of _audit_log_flusher with a non-empty  *)
(* buffer.  Nothing between popleft and the end of _flush_audit_events     *)
(* suspends, so the iteration is one step; it ends in asyncio.sleep.       *)
(***************************************************************************)
AuditLogFlusher ==
    /\ monitoring_active
    /\ audit_buffer # <<>>
    /\ LET pb == PopBatch(audit_buffer, <<>>)
       IN  \E fault \in FlushFaults(Len(pb[1])) :
              LET r == FlushAuditEvents(pb[1], pb[2], audit_logs, txn_inserts, txn_aborted, fault)
              IN  /\ events_to_flush' = pb[1]
                  /\ flush_result' = r.result
                  /\ audit_buffer' = r.buffer
                  /\ audit_logs' = r.logs
                  /\ txn_inserts' = r.txn
                  /\ txn_aborted' = r.aborted
                  /\ evicted' = evicted \cup (Range(audit_buffer) \ (Range(r.buffer) \cup Range(r.logs)))
    /\ UNCHANGED <<monitoring_active, next_event, db_connection, ingest_outcome, last_event,
                   clock>>
    /\ UNCHANGED vhVars
    /\ UNCHANGED schedVars
    /\ UNCHANGED fwVars
    /\ UNCHANGED replayVars
    /\ UNCHANGED secVars
    /\ UNCHANGED cmVars

(***************************************************************************)
(* Violation handling.  The handler state is passed as a record            *)
(* [table, notes, counts, handled] so that callers can chain calls.        *)
(***************************************************************************)
VH == [table |-> violations_table, notes |-> notifications,
       counts |-> violation_counts, handled |-> handled, raised |-> FALSE]

Violation(vid, rule_id, framework, severity, details, detected_at) ==
    [violation_id |-> vid, rule_id |-> rule_id, framework |-> framework,
     severity |-> severity, details |-> details, detected_at |-> detected_at]

(***************************************************************************)
(* _store_violation is called but defined nowhere in the sources.  It is   *)
(* modelled as the INSERT into compliance_violations the design describes: *)
(* violation_id is UNIQUE, so a second insert of an id leaves one row.     *)
(***************************************************************************)
StoreViolation(table, v) ==
    IF \E i \in DOMAIN table : table[i].violation_id = v.violation_id
    THEN table
    ELSE Append(table, v)

(***************************************************************************)
(* _send_violation_notification: one dispatch per enabled channel; every   *)
(* transport failure is caught inside.                                     *)
(***************************************************************************)
SendViolationNotification(notes, v, settings) ==
    LET n1 == IF settings.email_enabled
              THEN Append(notes, [violation_id |-> v.violation_id, channel |-> "email"])
              ELSE notes
    IN  IF settings.slack_enabled
        THEN Append(n1, [violation_id |-> v.violation_id, channel |-> "slack"])
        ELSE n1

\* variant: MEDIUM violations are notified as well
NotifySeveritiesFromMedium == {"medium", "high", "critical"}

NotifySeverities == {"high", "critical"}

(***************************************************************************)
(* _handle_violation(violation).  storeOut is the outcome of the insert:   *)
(* "ok" or "raise" (the exception leaves _handle_violation).               *)
(***************************************************************************)
HandleViolation(st, v, storeOut, settings) ==
    IF storeOut = "raise"
    THEN [st EXCEPT !.handled = Append(@, v), !.raised = TRUE]
    ELSE [table |-> StoreViolation(st.table, v),
          notes |-> IF v.severity \in NotifySeverities
                    THEN SendViolationNotification(st.notes, v, settings)
                    ELSE st.notes,
          counts |-> [st.counts EXCEPT ![v.framework] = @ + 1],
          handled |-> Append(st.handled, v),
          raised |-> FALSE]

StoreOutcomes == {"ok", "raise"}

SetVH(st) ==
    /\ violations_table' = st.table
    /\ notifications' = st.notes
    /\ violation_counts' = st.counts
    /\ handled' = st.handled

(***************************************************************************)
(* log_audit_event(event).  The event is identified by its event_id; its   *)
(* type and hour are read only during the call.  fault is the failure of   *)
(* the call, if any: the privilege-escalation check raises                 *)
(* (_check_privilege_escalation_compliance is defined nowhere in the       *)
(* sources; it is taken to change nothing that is modelled), the store of  *)
(* the violation raises, or the redis cache raises.  The first two are     *)
(* caught in _check_event_compliance, the third in _cache_audit_event, and *)
(* whatever is left by the except branch of log_audit_event itself.        *)
(***************************************************************************)
IngestFaults == {"none", "check_raises", "store_raises", "cache_raises"}

\* the types for which log_audit_event runs _check_event_compliance
ImmediateCheckTypes == {"data_access", "data_modification", "privilege_escalation"}

\* variant: a failure inside the call leaves log_audit_event
IngestOutcomeUncaught(fault) == IF fault = "none" THEN "returned" ELSE "raised"

IngestOutcome(fault) == "returned"

AuditEventTypes == {"data_access", "data_modification", "privilege_escalation", "login"}
Hours == {5, 6, 22, 23}

\* variant: 6am and 10pm count as after hours
AfterHoursInclusive(hour) == hour <= 6 \/ hour >= 22

\* event.timestamp.hour < 6 or event.timestamp.hour > 22
AfterHours(hour) == hour < 6 \/ hour > 22

\* _check_data_access_compliance: the after-hours violation, if any
DataAccessViolation(event_id, hour, vid, now) ==
    Violation(vid, "custom_001", "hipaa", "medium", [event_id |-> event_id], now)

LogAuditEventOf(observed) ==
    /\ next_event < MaxEvents
    /\ \E type \in AuditEventTypes, hour \in Hours, fault \in IngestFaults :
          LET e == next_event + 1
              fires == /\ type \in ImmediateCheckTypes
                       /\ type = "data_access"
                       /\ AfterHours(hour)
              storeOut == IF fault = "store_raises" THEN "raise" ELSE "ok"
          IN  /\ fault = "store_raises" => fires
              /\ fault = "check_raises" => type = "privilege_escalation"
              /\ ingest_outcome' = IngestOutcome(fault)
              /\ last_event' = IF observed THEN [type |-> type, hour |-> hour] ELSE last_event
              /\ next_event' = e
              /\ audit_buffer' = DequeAppend(audit_buffer, e, AuditBufferMaxlen)
              /\ evicted' = evicted \cup (Range(audit_buffer) \ Range(audit_buffer'))
              /\ IF fires
                 THEN /\ next_violation < MaxViolations
                      /\ next_violation' = next_violation + 1
                      /\ SetVH(HandleViolation(VH,
                               DataAccessViolation(e, hour, next_violation + 1, clock),
                               storeOut, notification_settings))
                 ELSE UNCHANGED <<violations_table, notifications, violation_counts,
                                 handled, next_violation>>
    /\ UNCHANGED <<monitoring_active, events_to_flush, flush_result, audit_logs,
                   txn_inserts, txn_aborted, db_connection, clock, notification_settings>>
    /\ UNCHANGED schedVars
    /\ UNCHANGED fwVars
    /\ UNCHANGED replayVars
    /\ UNCHANGED secVars
    /\ UNCHANGED cmVars

LogAuditEvent == LogAuditEventOf(FALSE)

\* a call whose event's type and hour are kept for inspection
LogAuditEventObserved == LogAuditEventOf(TRUE)

InitHandler ==
    /\ violations_table = <<>>
    /\ notifications = <<>>
    /\ violation_counts = [f \in Frameworks |-> 0]
    /\ handled = <<>>
    /\ next_violation = 0

InitBuffer ==
    /\ monitoring_active = TRUE
    /\ cm_pc = "top"
    /\ cm_errors = 0
    /\ audit_buffer = <<>>
    /\ events_to_flush = <<>>
    /\ flush_result = "none"
    /\ audit_logs = <<>>
    /\ txn_inserts = <<>>
    /\ txn_aborted = FALSE
    /\ next_event = 0
    /\ evicted = {}
    /\ db_connection = "open"
    /\ ingest_outcome = "none"
    /\ last_event = [type |-> "none", hour |-> 0]

NoCheckResult == [rule_id |-> 0, status |-> "none", is_compliant |-> FALSE, details |-> [count |-> 0]]

NoResults == [total_rules |-> 0, compliant_rules |-> 0, violations |-> <<>>,
              status |-> "compliant"]

NoViolation == [violation_id |-> 0, rule_id |-> 0, framework |-> "hipaa",
                severity |-> "low", details |-> [count |-> 0], detected_at |-> 0]

\* the scheduler before its first sweep
InitScheduler ==
    /\ last_check_times = <<>>
    /\ sched_pc = "sleep"
    /\ current_time = 0
    /\ sweep_queue = <<>>
    /\ check_result = NoCheckResult
    /\ last_eval_tick = <<>>
    /\ sweep_violation = NoViolation

NoComplianceResults == [frameworks |-> <<>>, overall_status |-> "compliant",
                        violations |-> <<>>]

\* no check_compliance call is running
InitCheckCompliance ==
    /\ cc_pc = "idle"
    /\ cc_queue = <<>>
    /\ cc_results = NoComplianceResults

\* no _check_framework_compliance call is running
InitFramework ==
    /\ fw_pc = "idle"
    /\ fw_framework = "hipaa"
    /\ fw_queue = <<>>
    /\ fw_results = NoResults
    /\ fw_raised = {}
    /\ InitCheckCompliance

InitReplay ==
    /\ replayed = NoViolation
    /\ handle_calls = <<>>

NoCall == [n |-> 0, title |-> "", description |-> "", severity |-> "low",
           out |-> "ok", outcome |-> "none", time |-> 0]

\* the tasks that may call _create_alert concurrently
CreateCallers == {1, 2}

NoCreateCalls ==
    [c \in CreateCallers |-> [pc |-> "idle", title |-> "", description |-> "",
                              severity |-> "low", entered |-> 0]]

NoRiskInput == [event_type |-> "login_attempt", hour |-> 0, suspicious_ip |-> FALSE,
                has_user |-> FALSE, user_risk |-> 0, frequency_risk |-> 0]

\* the SecurityMonitor after initialize()
InitSecurity ==
    /\ alert_suppression = <<>>
    /\ alerts = <<>>
    /\ alert_notifications = <<>>
    /\ security_events = <<>>
    /\ completed_events = {}
    /\ last_call = NoCall
    /\ create_calls = NoCreateCalls
    /\ risk_input = NoRiskInput
    /\ risk_score = -1

\* an empty rule registry and a scheduler that has nothing to do
InitNoRules ==
    /\ rules = <<>>
    /\ InitScheduler
    /\ InitFramework
    /\ InitReplay


(***************************************************************************)
(* Rules and their checks.  A rule is                                      *)
(*   [rule_id, framework, severity, check_function, enabled, frequency].   *)
(***************************************************************************)
Frequencies == {"daily", "weekly", "monthly", "continuous"}

\* the check methods ComplianceMonitor defines; getattr finds no others
CheckMethods == {"check_encryption_at_rest", "check_access_logging",
                 "check_user_access_reviews", "check_data_backup_encryption",
                 "check_data_retention_policy", "check_consent_management"}

(***************************************************************************)
(* What a check method finds is decided by the database it queries:        *)
(* "compliant", "violation" (non-compliant, with the numbers found) or     *)
(* "error" (the query raised; every check method returns False with        *)
(* {'error': ...} from its own except branch).                             *)
(***************************************************************************)
EnvOutcomes == {"compliant", "violation", "error"}

Evidence(out) ==
    CASE out = "compliant" -> [count |-> 0]
      [] out = "violation" -> [count |-> 5]
      [] OTHER -> [error |-> "query failed"]

\* _execute_rule_check(rule): raises ValueError when getattr finds no method
ExecuteRuleCheck(rule, out) ==
    IF rule.check_function \notin CheckMethods
    THEN [rule_id |-> rule.rule_id, status |-> "raised", is_compliant |-> FALSE,
          details |-> [error |-> "not found"]]
    ELSE [rule_id |-> rule.rule_id, status |-> "returned",
          is_compliant |-> (out = "compliant"), details |-> Evidence(out)]

(***************************************************************************)
(* Time.  The clock counts units of 1/TicksPerDay day; timedelta.days is   *)
(* the whole number of days of a non-negative difference.                  *)
(***************************************************************************)
TicksPerDay == 2

Days(delta) == delta \div TicksPerDay

DailyDays == 1
WeeklyDays == 7
MonthlyDays == 30

DictSet(d, k, v) == [x \in DOMAIN d \cup {k} |-> IF x = k THEN v ELSE d[x]]

\* variant: the elapsed time must exceed the interval
CheckDueStrict(rule, lastChecks, now) ==
    IF rule.rule_id \notin DOMAIN lastChecks THEN TRUE
    ELSE IF rule.frequency = "daily" THEN Days(now - lastChecks[rule.rule_id]) > DailyDays
    ELSE IF rule.frequency = "weekly" THEN Days(now - lastChecks[rule.rule_id]) > WeeklyDays
    ELSE IF rule.frequency = "monthly" THEN Days(now - lastChecks[rule.rule_id]) > MonthlyDays
    ELSE FALSE

(***************************************************************************)
(* The "Determine if check is due" block of _scheduled_checks.             *)
(***************************************************************************)
CheckDue(rule, lastChecks, now) ==
    IF rule.rule_id \notin DOMAIN lastChecks THEN TRUE
    ELSE IF rule.frequency = "daily" THEN Days(now - lastChecks[rule.rule_id]) >= DailyDays
    ELSE IF rule.frequency = "weekly" THEN Days(now - lastChecks[rule.rule_id]) >= WeeklyDays
    ELSE IF rule.frequency = "monthly" THEN Days(now - lastChecks[rule.rule_id]) >= MonthlyDays
    ELSE FALSE

\* variant: the violation is built without the evidence of the check
SweepViolationNoEvidence(rule, res, vid, now) ==
    Violation(vid, rule.rule_id, rule.framework, rule.severity, [count |-> 0], now)

\* the ComplianceViolation built by a sweep for a non-compliant result
SweepViolation(rule, res, vid, now) ==
    Violation(vid, rule.rule_id, rule.framework, rule.severity, res.details, now)

\* the instants at which the scheduler specification looks at the system
ClockValues ==
    {0, 1, TicksPerDay, WeeklyDays * TicksPerDay - 1, WeeklyDays * TicksPerDay,
     MonthlyDays * TicksPerDay - 1, MonthlyDays * TicksPerDay}

\* the time passes
Tick ==
    /\ \E t \in ClockValues :
          /\ t > clock
          /\ clock' = t
    /\ UNCHANGED bufVars
    /\ UNCHANGED vhVars
    /\ UNCHANGED schedVars
    /\ UNCHANGED fwVars
    /\ UNCHANGED replayVars
    /\ UNCHANGED secVars
    /\ UNCHANGED cmVars

(***************************************************************************)
(* _scheduled_checks.  SweepStart: the loop wakes up and reads the clock.  *)
(* SweepRule: one pass of the for loop.  SweepEnd: asyncio.sleep(300).     *)
(***************************************************************************)
SweepStart ==
    /\ monitoring_active
    /\ sched_pc = "sleep"
    /\ sched_pc' = "sweep"
    /\ current_time' = clock
    /\ sweep_queue' = [i \in 1..Len(rules) |-> i]
    /\ check_result' = NoCheckResult
    /\ UNCHANGED <<rules, last_check_times, last_eval_tick, sweep_violation, clock>>
    /\ UNCHANGED fwVars
    /\ UNCHANGED replayVars
    /\ UNCHANGED secVars
    /\ UNCHANGED cmVars
    /\ UNCHANGED bufVars
    /\ UNCHANGED vhVars

SweepRule ==
    /\ sched_pc = "sweep"
    /\ sweep_queue # <<>>
    /\ sweep_queue' = Tail(sweep_queue)
    /\ LET rule == rules[Head(sweep_queue)]
       IN  IF ~(rule.enabled /\ CheckDue(rule, last_check_times, current_time))
           THEN /\ check_result' = NoCheckResult
                /\ UNCHANGED <<last_check_times, last_eval_tick>>
                /\ UNCHANGED vhVars
           ELSE \E out \in EnvOutcomes, storeOut \in StoreOutcomes :
                  LET res == ExecuteRuleCheck(rule, out)
                  IN  /\ check_result' = res
                      /\ IF res.status = "raised"
                         THEN /\ out = "compliant" /\ storeOut = "ok"
                              /\ UNCHANGED <<last_check_times, last_eval_tick>>
                              /\ UNCHANGED vhVars
                         ELSE /\ last_check_times' = DictSet(last_check_times, rule.rule_id, current_time)
                              /\ last_eval_tick' = DictSet(last_eval_tick, rule.rule_id, current_time)
                              /\ IF res.is_compliant
                                 THEN /\ storeOut = "ok"
                                      /\ UNCHANGED vhVars
                                 ELSE /\ next_violation < MaxSweepViolations
                                      /\ next_violation' = next_violation + 1
                                      /\ SetVH(HandleViolation(VH,
                                               SweepViolation(rule, res, next_violation + 1,
                                                              current_time),
                                               storeOut, notification_settings))
                                      /\ UNCHANGED notification_settings
    /\ UNCHANGED <<rules, sched_pc, current_time, clock, sweep_violation>>
    /\ UNCHANGED fwVars
    /\ UNCHANGED replayVars
    /\ UNCHANGED secVars
    /\ UNCHANGED cmVars
    /\ UNCHANGED bufVars

SweepEnd ==
    /\ sched_pc = "sweep"
    /\ sweep_queue = <<>>
    /\ sched_pc' = "sleep"
    /\ UNCHANGED <<rules, last_check_times, current_time, sweep_queue, check_result,
                   last_eval_tick, sweep_violation, clock>>
    /\ UNCHANGED fwVars
    /\ UNCHANGED replayVars
    /\ UNCHANGED secVars
    /\ UNCHANGED cmVars
    /\ UNCHANGED bufVars
    /\ UNCHANGED vhVars

(***************************************************************************)
(* The scheduler over a registry of two rules.  The registry is the input: *)
(* each rule has one of the shapes of RuleProfiles.                        *)
(***************************************************************************)
RuleProfiles ==
    {[frequency |-> f, check_function |-> "check_access_logging", enabled |-> TRUE] :
        f \in Frequencies}
    \cup {[frequency |-> "daily", check_function |-> "check_undefined", enabled |-> TRUE],
          [frequency |-> "daily", check_function |-> "check_access_logging", enabled |-> FALSE]}

MakeRule(id, framework, severity, profile) ==
    [rule_id |-> id, framework |-> framework, severity |-> severity,
     check_function |-> profile.check_function, enabled |-> profile.enabled,
     frequency |-> profile.frequency]

InitSched ==
    /\ InitBuffer
    /\ InitSecurity
    /\ InitHandler
    /\ clock = 0
    /\ notification_settings = [email_enabled |-> TRUE, slack_enabled |-> FALSE]
    /\ \E p1 \in RuleProfiles, p2 \in {p \in RuleProfiles : p.frequency = "daily"} :
          rules = <<MakeRule(1, "hipaa", "high", p1), MakeRule(2, "gdpr", "medium", p2)>>
    /\ InitScheduler
    /\ InitFramework
    /\ InitReplay

NextSched == SweepStart \/ SweepRule \/ SweepEnd \/ Tick

SpecSched == InitSched /\ [][NextSched]_vars

(***************************************************************************)
(* The sweep with the await of line 792 made visible: the check of a due   *)
(* rule is started (sched_pc = "checking", the rule stays at the head of   *)
(* the queue) and returns or raises in a later step; the clock moves while *)
(* the check is in flight.                                                 *)
(***************************************************************************)
\* variant: the rule is marked as checked when its check is started
LastCheckAtStartEager(lastChecks, rule, now) == DictSet(lastChecks, rule.rule_id, now)

\* lines 790-792: nothing is written between the due test and the await
LastCheckAtStart(lastChecks, rule, now) == lastChecks

\* line 793, reached only when the await of line 792 returned
LastCheckAtReturn(lastChecks, rule, res, now) ==
    IF res.status = "raised" THEN lastChecks ELSE DictSet(lastChecks, rule.rule_id, now)

\* a rule that is disabled or not due is passed over
SweepSkip ==
    /\ sched_pc = "sweep"
    /\ sweep_queue # <<>>
    /\ LET rule == rules[Head(sweep_queue)]
       IN  ~(rule.enabled /\ CheckDue(rule, last_check_times, current_time))
    /\ sweep_queue' = Tail(sweep_queue)
    /\ check_result' = NoCheckResult
    /\ UNCHANGED <<rules, sched_pc, current_time, clock, last_check_times, last_eval_tick, sweep_violation>>
    /\ UNCHANGED <<bufVars, vhVars, fwVars, replayVars, secVars, cmVars>>

\* await self._execute_rule_check(rule): the check is started
SweepCheckStart ==
    /\ sched_pc = "sweep"
    /\ sweep_queue # <<>>
    /\ LET rule == rules[Head(sweep_queue)]
       IN  /\ rule.enabled /\ CheckDue(rule, last_check_times, current_time)
           /\ last_check_times' = LastCheckAtStart(last_check_times, rule, current_time)
    /\ sched_pc' = "checking"
    /\ check_result' = NoCheckResult
    /\ UNCHANGED <<rules, current_time, clock, sweep_queue, last_eval_tick, sweep_violation>>
    /\ UNCHANGED <<bufVars, vhVars, fwVars, replayVars, secVars, cmVars>>

\* the check returns or raises; lines 793-809
SweepCheckReturn ==
    /\ sched_pc = "checking"
    /\ sched_pc' = "sweep"
    /\ sweep_queue' = Tail(sweep_queue)
    /\ LET rule == rules[Head(sweep_queue)]
       IN  \E out \in EnvOutcomes, storeOut \in StoreOutcomes :
             LET res == ExecuteRuleCheck(rule, out)
             IN  /\ check_result' = res
                 /\ last_check_times' = LastCheckAtReturn(last_check_times, rule, res,
                                                          current_time)
                 /\ IF res.status = "raised"
                    THEN /\ out = "compliant" /\ storeOut = "ok"
                         /\ UNCHANGED last_eval_tick
                         /\ UNCHANGED vhVars
                    ELSE /\ last_eval_tick' = DictSet(last_eval_tick, rule.rule_id, current_time)
                         /\ IF res.is_compliant
                            THEN /\ storeOut = "ok"
                                 /\ UNCHANGED vhVars
                            ELSE /\ next_violation < MaxSweepViolations
                                 /\ next_violation' = next_violation + 1
                                 /\ SetVH(HandleViolation(VH,
                                          SweepViolation(rule, res, next_violation + 1,
                                                         current_time),
                                          storeOut, notification_settings))
                                 /\ UNCHANGED notification_settings
    /\ UNCHANGED <<rules, current_time, clock, sweep_violation>>
    /\ UNCHANGED <<bufVars, fwVars, replayVars, secVars, cmVars>>

NextSchedAwait ==
    SweepStart \/ SweepSkip \/ SweepCheckStart \/ SweepCheckReturn \/ SweepEnd \/ Tick

SpecSchedAwait == InitSched /\ [][NextSchedAwait]_vars

(***************************************************************************)
(* The scheduler task together with log_audit_event calls: a call runs     *)
(* while the sweep is suspended in one of the awaits of its for loop       *)
(* (lines 792 and 806) or in asyncio.sleep.                                *)
(***************************************************************************)
MaxMixEvents == 1

\* two enabled daily rules whose check methods exist
InitMix ==
    /\ InitBuffer
    /\ InitSecurity
    /\ InitHandler
    /\ clock = 0
    /\ notification_settings = [email_enabled |-> TRUE, slack_enabled |-> FALSE]
    /\ LET p == [frequency |-> "daily", check_function |-> "check_access_logging",
                 enabled |-> TRUE]
       IN  rules = <<MakeRule(1, "hipaa", "high", p), MakeRule(2, "gdpr", "medium", p)>>
    /\ InitScheduler
    /\ InitFramework
    /\ InitReplay

LogAuditEventDuringSweep ==
    /\ next_event < MaxMixEvents
    /\ (sched_pc = "sweep" => Len(sweep_queue) < Len(rules))
    /\ LogAuditEvent

NextMix == SweepStart \/ SweepRule \/ SweepEnd \/ Tick \/ LogAuditEventDuringSweep

SpecMix == InitMix /\ [][NextMix]_vars

(***************************************************************************)
(* Event ingest and the audit-log flusher.                                 *)
(***************************************************************************)
InitBuf ==
    /\ InitBuffer
    /\ InitSecurity
    /\ InitHandler
    /\ InitNoRules
    /\ clock = 0
    /\ notification_settings = [email_enabled |-> TRUE, slack_enabled |-> FALSE]

NextBuf == LogAuditEvent \/ AuditLogFlusher

SpecBuf == InitBuf /\ [][NextBuf]_vars

\* log_audit_event calls alone
SpecIngest == InitBuf /\ [][LogAuditEventObserved]_vars

(***************************************************************************)
(* The flusher under fair scheduling with transient failures: while the    *)
(* monitor is active the while loop of _audit_log_flusher comes back to a  *)
(* non-empty buffer every audit_flush_interval, and an iteration in which  *)
(* the environment injects no failure eventually happens.                  *)
(***************************************************************************)
NoFault == [kind |-> "none", pos |-> 0]

\* a flusher iteration in which nothing fails on the environment's side
FlushNoFault ==
    /\ AuditLogFlusher
    /\ LET pb == PopBatch(audit_buffer, <<>>)
           r == FlushAuditEvents(pb[1], pb[2], audit_logs, txn_inserts, txn_aborted, NoFault)
       IN  /\ flush_result' = r.result
           /\ audit_buffer' = r.buffer
           /\ audit_logs' = r.logs
           /\ txn_inserts' = r.txn
           /\ txn_aborted' = r.aborted

SpecBufFair == InitBuf /\ [][NextBuf]_vars /\ WF_vars(FlushNoFault)

(***************************************************************************)
(* _check_framework_compliance(framework).                                 *)
(***************************************************************************)
RECURSIVE FrameworkRules(_, _, _)
\* [rule for rule in self.rules.values() if rule.framework == framework and rule.enabled]
FrameworkRules(rs, i, framework) ==
    IF i > Len(rs) THEN <<>>
    ELSE IF rs[i].framework = framework /\ rs[i].enabled
         THEN <<i>> \o FrameworkRules(rs, i + 1, framework)
         ELSE FrameworkRules(rs, i + 1, framework)

\* variant: 80% itself is not enough for PARTIALLY_COMPLIANT
FrameworkStatusAbove80(compliant, total) ==
    IF total = 0 THEN "ZeroDivisionError"
    ELSE IF compliant = total THEN "compliant"
    ELSE IF 100 * compliant > 80 * total THEN "partially_compliant"
    ELSE "non_compliant"

(***************************************************************************)
(* The status block: compliance_percentage = compliant_rules / total_rules *)
(* compared with 1.0 and 0.8.  For counts below 2^50 the float quotient    *)
(* equals 1.0 exactly when both are equal and is >= 0.8 exactly when       *)
(* 100 * compliant >= 80 * total.                                          *)
(***************************************************************************)
FrameworkStatus(compliant, total) ==
    IF total = 0 THEN "ZeroDivisionError"
    ELSE IF compliant = total THEN "compliant"
    ELSE IF 100 * compliant >= 80 * total THEN "partially_compliant"
    ELSE "non_compliant"

\* the call is entered: framework_rules and results are set up
FwEnter(framework) ==
    /\ fw_framework' = framework
    /\ fw_queue' = FrameworkRules(rules, 1, framework)
    /\ fw_results' = [total_rules |-> Len(FrameworkRules(rules, 1, framework)),
                      compliant_rules |-> 0, violations |-> <<>>,
                      status |-> "compliant"]
    /\ fw_pc' = "rules"
    /\ fw_raised' = {}

FwStart ==
    /\ fw_pc = "idle"
    /\ cc_pc = "idle"
    /\ \E framework \in Frameworks : FwEnter(framework)
    /\ UNCHANGED ccVars
    /\ UNCHANGED <<rules, clock>>
    /\ UNCHANGED <<last_check_times, sched_pc, current_time, sweep_queue, check_result,
                   last_eval_tick, sweep_violation>>
    /\ UNCHANGED bufVars
    /\ UNCHANGED vhVars
    /\ UNCHANGED replayVars
    /\ UNCHANGED secVars
    /\ UNCHANGED cmVars

\* one pass of the for loop
FwRule ==
    /\ fw_pc = "rules"
    /\ fw_queue # <<>>
    /\ fw_queue' = Tail(fw_queue)
    /\ LET rule == rules[Head(fw_queue)]
       IN  \E out \in EnvOutcomes, storeOut \in StoreOutcomes :
             LET res == ExecuteRuleCheck(rule, out)
             IN  IF res.status = "raised"
                 THEN /\ out = "compliant" /\ storeOut = "ok"
                      /\ fw_raised' = fw_raised \cup {rule.rule_id}
                      /\ UNCHANGED fw_results
                      /\ UNCHANGED vhVars
                 ELSE IF res.is_compliant
                 THEN /\ storeOut = "ok"
                      /\ fw_results' = [fw_results EXCEPT !.compliant_rules = @ + 1]
                      /\ UNCHANGED fw_raised
                      /\ UNCHANGED vhVars
                 ELSE LET v == Violation(next_violation + 1, rule.rule_id, fw_framework,
                                         rule.severity, res.details, clock)
                      IN  /\ next_violation < MaxViolations
                          /\ next_violation' = next_violation + 1
                          /\ fw_results' = [fw_results EXCEPT !.violations = Append(@, v)]
                          /\ SetVH(HandleViolation(VH, v, storeOut, notification_settings))
                          /\ UNCHANGED <<fw_raised, notification_settings>>
    /\ UNCHANGED <<fw_pc, fw_framework, rules, clock>>
    /\ UNCHANGED ccVars
    /\ UNCHANGED <<last_check_times, sched_pc, current_time, sweep_queue, check_result,
                   last_eval_tick, sweep_violation>>
    /\ UNCHANGED bufVars
    /\ UNCHANGED replayVars
    /\ UNCHANGED secVars
    /\ UNCHANGED cmVars

\* the for loop is over
FwLoopEnd ==
    /\ fw_pc = "rules"
    /\ fw_queue = <<>>
    /\ fw_pc' = "status"
    /\ UNCHANGED <<fw_framework, fw_queue, fw_results, fw_raised, rules, clock>>
    /\ UNCHANGED ccVars
    /\ UNCHANGED <<last_check_times, sched_pc, current_time, sweep_queue, check_result,
                   last_eval_tick, sweep_violation>>
    /\ UNCHANGED bufVars
    /\ UNCHANGED vhVars
    /\ UNCHANGED replayVars
    /\ UNCHANGED secVars
    /\ UNCHANGED cmVars

\* "Determine framework compliance status" and return, or ZeroDivisionError
FwFinish ==
    /\ fw_pc = "status"
    /\ LET st == FrameworkStatus(fw_results.compliant_rules, fw_results.total_rules)
       IN  IF st = "ZeroDivisionError"
           THEN fw_pc' = "raised" /\ UNCHANGED fw_results
           ELSE fw_pc' = "returned" /\ fw_results' = [fw_results EXCEPT !.status = st]
    /\ UNCHANGED <<fw_framework, fw_queue, fw_raised, rules, clock>>
    /\ UNCHANGED ccVars
    /\ UNCHANGED <<last_check_times, sched_pc, current_time, sweep_queue, check_result,
                   last_eval_tick, sweep_violation>>
    /\ UNCHANGED bufVars
    /\ UNCHANGED vhVars
    /\ UNCHANGED replayVars
    /\ UNCHANGED secVars
    /\ UNCHANGED cmVars

(***************************************************************************)
(* The scheduler task together with one on-demand call of                  *)
(* _check_framework_compliance, as check_compliance makes it.  Both run on *)
(* one event loop.  The check methods contain no await (their queries are  *)
(* blocking psycopg2 calls), so a check runs without interruption; a task  *)
(* is suspended in asyncio.sleep or in the await of _store_violation,      *)
(* which is defined nowhere in the sources and is taken, with the design,  *)
(* to await its INSERT.  SweepDetect is a pass of the sweep's for loop up  *)
(* to that await (lines 777-806, 459-462), SweepStored the rest of         *)
(* _handle_violation (lines 462-475).  The on-demand call runs only while  *)
(* the sweep is suspended, and the sweep only while no on-demand call is   *)
(* inside its for loop.  The clock stands still: every rule is due in the  *)
(* first sweep and passed over in the following ones.                      *)
(***************************************************************************)
SweepDetect ==
    /\ sched_pc = "sweep"
    /\ sweep_queue # <<>>
    /\ LET rule == rules[Head(sweep_queue)]
       IN  /\ rule.enabled /\ CheckDue(rule, last_check_times, current_time)
           /\ \E out \in EnvOutcomes :
                 LET res == ExecuteRuleCheck(rule, out)
                 IN  /\ check_result' = res
                     /\ last_check_times' = LastCheckAtReturn(last_check_times, rule, res,
                                                              current_time)
                     /\ IF res.status = "raised"
                        THEN /\ out = "compliant"
                             /\ sweep_queue' = Tail(sweep_queue)
                             /\ UNCHANGED <<last_eval_tick, sched_pc, sweep_violation,
                                            next_violation>>
                        ELSE /\ last_eval_tick' = DictSet(last_eval_tick, rule.rule_id,
                                                          current_time)
                             /\ IF res.is_compliant
                                THEN /\ sweep_queue' = Tail(sweep_queue)
                                     /\ UNCHANGED <<sched_pc, sweep_violation, next_violation>>
                                ELSE /\ next_violation < MaxSweepViolations
                                     /\ next_violation' = next_violation + 1
                                     /\ sweep_violation' =
                                           SweepViolation(rule, res, next_violation + 1,
                                                          current_time)
                                     /\ sched_pc' = "handling"
                                     /\ UNCHANGED sweep_queue
    /\ UNCHANGED <<violations_table, notifications, violation_counts, handled,
                   notification_settings>>
    /\ UNCHANGED <<rules, current_time, clock>>
    /\ UNCHANGED <<bufVars, fwVars, replayVars, secVars, cmVars>>

SweepStored ==
    /\ sched_pc = "handling"
    /\ \E storeOut \in StoreOutcomes :
          SetVH(HandleViolation(VH, sweep_violation, storeOut, notification_settings))
    /\ sweep_violation' = NoViolation
    /\ sched_pc' = "sweep"
    /\ sweep_queue' = Tail(sweep_queue)
    /\ UNCHANGED <<next_violation, notification_settings>>
    /\ UNCHANGED <<rules, last_check_times, current_time, check_result, last_eval_tick, clock>>
    /\ UNCHANGED <<bufVars, fwVars, replayVars, secVars, cmVars>>

\* the scheduler task runs
SweepTask ==
    /\ fw_pc \notin {"rules", "status"}
    /\ (SweepStart \/ SweepSkip \/ SweepDetect \/ SweepStored \/ SweepEnd)

\* the on-demand call runs while the scheduler task is suspended
OnDemandCheck ==
    /\ sched_pc \in {"sleep", "handling"}
    /\ (FwStart \/ FwRule \/ FwLoopEnd \/ FwFinish)

NextOverlap == SweepTask \/ OnDemandCheck

SpecOverlap == InitMix /\ [][NextOverlap]_vars

(***************************************************************************)
(* One call of _check_framework_compliance over a registry of up to        *)
(* MaxFwRules rules; the registry and the framework are the inputs.        *)
(***************************************************************************)
MaxFwRules == 4

FwRuleShapes ==
    {[framework |-> "hipaa", severity |-> "high", check_function |-> "check_access_logging",
      enabled |-> TRUE],
     [framework |-> "hipaa", severity |-> "medium", check_function |-> "check_undefined",
      enabled |-> TRUE],
     [framework |-> "hipaa", severity |-> "low", check_function |-> "check_consent_management",
      enabled |-> FALSE],
     [framework |-> "gdpr", severity |-> "critical", check_function |-> "check_consent_management",
      enabled |-> TRUE]}

MakeFwRule(id, shape) ==
    [rule_id |-> id, framework |-> shape.framework, severity |-> shape.severity,
     check_function |-> shape.check_function, enabled |-> shape.enabled,
     frequency |-> "daily"]

InitFw ==
    /\ InitBuffer
    /\ InitSecurity
    /\ InitHandler
    /\ clock = 0
    /\ notification_settings = [email_enabled |-> TRUE, slack_enabled |-> FALSE]
    /\ \E n \in 0..MaxFwRules : \E shapes \in [1..n -> FwRuleShapes] :
          rules = [i \in 1..n |-> MakeFwRule(i, shapes[i])]
    /\ InitScheduler
    /\ InitFramework
    /\ InitReplay

NextFw == FwStart \/ FwRule \/ FwLoopEnd \/ FwFinish

SpecFw == InitFw /\ [][NextFw]_vars

(***************************************************************************)
(* check_compliance(framework=None).  The frameworks are visited in the    *)
(* order of the enum; each visit is one _check_framework_compliance call.  *)
(* An exception of that call, or of storing the results, is logged and     *)
(* raised again (lines 225-227).  _generate_recommendations and            *)
(* _store_compliance_results are defined nowhere in the sources; the       *)
(* former is taken to change nothing, the latter to persist or to raise.   *)
(***************************************************************************)
FrameworkList == <<"hipaa", "sox", "gdpr">>

\* variant: the status of the framework checked last wins over a worse one
CollectFrameworkLastWins(results, fw, framework_results) ==
    [frameworks |-> DictSet(results.frameworks, fw, framework_results),
     overall_status |->
        IF framework_results.status = "non_compliant" THEN "non_compliant"
        ELSE IF framework_results.status = "partially_compliant" THEN "partially_compliant"
        ELSE results.overall_status,
     violations |-> results.violations \o framework_results.violations]

\* the body of the for loop after the framework's results are back
CollectFramework(results, fw, framework_results) ==
    [frameworks |-> DictSet(results.frameworks, fw, framework_results),
     overall_status |->
        IF framework_results.status = "non_compliant" THEN "non_compliant"
        ELSE IF framework_results.status = "partially_compliant"
                /\ results.overall_status = "compliant" THEN "partially_compliant"
        ELSE results.overall_status,
     violations |-> results.violations \o framework_results.violations]

CcStart ==
    /\ cc_pc = "idle"
    /\ fw_pc = "idle"
    /\ \E framework \in Frameworks \cup {"None"} :
          cc_queue' = IF framework = "None" THEN FrameworkList ELSE <<framework>>
    /\ cc_pc' = "loop"
    /\ cc_results' = NoComplianceResults
    /\ UNCHANGED <<fw_pc, fw_framework, fw_queue, fw_results, fw_raised, clock>>
    /\ UNCHANGED <<bufVars, vhVars, schedVars, replayVars, secVars, cmVars>>

\* framework_results = await self._check_framework_compliance(fw): the call
CcCallFramework ==
    /\ cc_pc = "loop"
    /\ fw_pc = "idle"
    /\ cc_queue # <<>>
    /\ FwEnter(Head(cc_queue))
    /\ UNCHANGED <<ccVars, clock>>
    /\ UNCHANGED <<bufVars, vhVars, schedVars, replayVars, secVars, cmVars>>

\* ... and its return
CcCollect ==
    /\ cc_pc = "loop"
    /\ fw_pc = "returned"
    /\ cc_results' = CollectFramework(cc_results, Head(cc_queue), fw_results)
    /\ cc_queue' = Tail(cc_queue)
    /\ fw_pc' = "idle"
    /\ UNCHANGED <<cc_pc, fw_framework, fw_queue, fw_results, fw_raised, clock>>
    /\ UNCHANGED <<bufVars, vhVars, schedVars, replayVars, secVars, cmVars>>

\* ... or its exception, which leaves check_compliance
CcRaise ==
    /\ cc_pc = "loop"
    /\ fw_pc = "raised"
    /\ cc_pc' = "raised"
    /\ UNCHANGED <<cc_queue, cc_results, fw_pc, fw_framework, fw_queue, fw_results,
                   fw_raised, clock>>
    /\ UNCHANGED <<bufVars, vhVars, schedVars, replayVars, secVars, cmVars>>

\* recommendations, storing the results, return
CcFinish ==
    /\ cc_pc = "loop"
    /\ fw_pc = "idle"
    /\ cc_queue = <<>>
    /\ \E storeOut \in StoreOutcomes :
          cc_pc' = IF storeOut = "ok" THEN "returned" ELSE "raised"
    /\ UNCHANGED <<cc_queue, cc_results, fw_pc, fw_framework, fw_queue, fw_results,
                   fw_raised, clock>>
    /\ UNCHANGED <<bufVars, vhVars, schedVars, replayVars, secVars, cmVars>>

(***************************************************************************)
(* One check_compliance call over a registry of up to MaxCcRules rules;    *)
(* the registry and the argument are the inputs.                           *)
(***************************************************************************)
MaxCcRules == 3

CcRuleShapes ==
    FwRuleShapes
        \cup {[framework |-> "sox", severity |-> "high",
               check_function |-> "check_user_access_reviews", enabled |-> TRUE]}

InitCc ==
    /\ InitBuffer
    /\ InitSecurity
    /\ InitHandler
    /\ clock = 0
    /\ notification_settings = [email_enabled |-> TRUE, slack_enabled |-> FALSE]
    /\ \E n \in 0..MaxCcRules : \E shapes \in [1..n -> CcRuleShapes] :
          rules = [i \in 1..n |-> MakeFwRule(i, shapes[i])]
    /\ InitScheduler
    /\ InitFramework
    /\ InitReplay

NextCc == CcStart \/ CcCallFramework \/ FwRule \/ FwLoopEnd \/ FwFinish \/ CcCollect
             \/ CcRaise \/ CcFinish

SpecCc == InitCc /\ [][NextCc]_vars

(***************************************************************************)
(* The for loop of check_compliance on its own: the frameworks to check,   *)
(* in any order, and what _check_framework_compliance returns for each are *)
(* the inputs.  A framework has RulesPerFramework enabled rules, of which  *)
(* k are compliant and the others are returned as violations.              *)
(***************************************************************************)
RulesPerFramework == 5

CompliantCounts == {RulesPerFramework, RulesPerFramework - 1, RulesPerFramework - 2}

GivenResults(fw, k) ==
    [total_rules |-> RulesPerFramework, compliant_rules |-> k,
     violations |-> [i \in 1..(RulesPerFramework - k) |->
                        Violation(i, i, fw, "medium", Evidence("violation"), 0)],
     status |-> FrameworkStatus(k, RulesPerFramework)]

CcCollectGiven ==
    /\ cc_pc = "loop"
    /\ cc_queue # <<>>
    /\ \E k \in CompliantCounts :
          cc_results' = CollectFramework(cc_results, Head(cc_queue),
                                         GivenResults(Head(cc_queue), k))
    /\ cc_queue' = Tail(cc_queue)
    /\ UNCHANGED <<cc_pc, fw_pc, fw_framework, fw_queue, fw_results, fw_raised, clock>>
    /\ UNCHANGED <<bufVars, vhVars, schedVars, replayVars, secVars, cmVars>>

\* the frameworks of FrameworkList, some or all of them, in any order
FrameworkOrders ==
    {q \in UNION {[1..n -> Frameworks] : n \in 1..Len(FrameworkList)} :
        \A i, j \in DOMAIN q : i # j => q[i] # q[j]}

InitOverall ==
    /\ InitBuffer
    /\ InitSecurity
    /\ InitHandler
    /\ clock = 0
    /\ notification_settings = [email_enabled |-> TRUE, slack_enabled |-> FALSE]
    /\ rules = <<>>
    /\ InitScheduler
    /\ InitReplay
    /\ fw_pc = "idle"
    /\ fw_framework = "hipaa"
    /\ fw_queue = <<>>
    /\ fw_results = NoResults
    /\ fw_raised = {}
    /\ cc_pc = "loop"
    /\ cc_queue \in FrameworkOrders
    /\ cc_results = NoComplianceResults

SpecOverall == InitOverall /\ [][CcCollectGiven]_vars

(***************************************************************************)
(* The status block on its own: the counts with which the for loop can     *)
(* end are the inputs.                                                     *)
(***************************************************************************)
MaxRuleCount == 10

InitStatus ==
    /\ InitBuffer
    /\ InitSecurity
    /\ InitHandler
    /\ clock = 0
    /\ notification_settings = [email_enabled |-> TRUE, slack_enabled |-> FALSE]
    /\ rules = <<>>
    /\ InitScheduler
    /\ InitReplay
    /\ fw_pc = "status"
    /\ fw_framework = "hipaa"
    /\ fw_queue = <<>>
    /\ fw_raised = {}
    /\ InitCheckCompliance
    /\ \E n \in 0..MaxRuleCount : \E k \in 0..n :
          fw_results = [total_rules |-> n, compliant_rules |-> k, violations |-> <<>>,
                        status |-> "compliant"]

SpecStatus == InitStatus /\ [][FwFinish]_vars

(***************************************************************************)
(* _handle_violation called repeatedly with one violation (a replay); the  *)
(* violation and the notification settings are the inputs.                 *)
(***************************************************************************)
MaxHandleCalls == 3

HandleCall ==
    /\ Len(handle_calls) < MaxHandleCalls
    /\ \E storeOut \in StoreOutcomes :
          LET st == HandleViolation(VH, replayed, storeOut, notification_settings)
          IN  /\ SetVH(st)
              /\ handle_calls' = Append(handle_calls, IF st.raised THEN "raised" ELSE "returned")
    /\ UNCHANGED <<replayed, next_violation, notification_settings, rules, clock>>
    /\ UNCHANGED <<last_check_times, sched_pc, current_time, sweep_queue, check_result,
                   last_eval_tick, sweep_violation>>
    /\ UNCHANGED bufVars
    /\ UNCHANGED secVars
    /\ UNCHANGED cmVars
    /\ UNCHANGED fwVars

InitHandle ==
    /\ InitBuffer
    /\ InitSecurity
    /\ InitHandler
    /\ clock = 0
    /\ \E e \in BOOLEAN, sl \in BOOLEAN :
          notification_settings = [email_enabled |-> e, slack_enabled |-> sl]
    /\ rules = <<>>
    /\ InitScheduler
    /\ InitFramework
    /\ handle_calls = <<>>
    /\ \E f \in Frameworks, sev \in Severities, out \in {"violation", "error"} :
          replayed = Violation(1, 1, f, sev, Evidence(out), 0)

SpecHandle == InitHandle /\ [][HandleCall]_vars

(***************************************************************************)
(* shutdown(): the flag is cleared and the connection closed; what the     *)
(* connection had inserted but not committed is discarded by the server.   *)
(* The flusher, suspended in asyncio.sleep, finds the flag cleared when it *)
(* wakes and leaves its loop; the only log line is "shutdown complete".    *)
(***************************************************************************)
Shutdown ==
    /\ db_connection = "open"
    /\ monitoring_active' = FALSE
    /\ db_connection' = "closed"
    /\ txn_inserts' = <<>>
    /\ txn_aborted' = FALSE
    /\ UNCHANGED <<audit_buffer, events_to_flush, flush_result, audit_logs, next_event,
                   evicted, ingest_outcome, last_event, clock>>
    /\ UNCHANGED vhVars
    /\ UNCHANGED schedVars
    /\ UNCHANGED fwVars
    /\ UNCHANGED replayVars
    /\ UNCHANGED secVars
    /\ UNCHANGED cmVars

NextShutdown == LogAuditEvent \/ AuditLogFlusher \/ Shutdown

SpecShutdown == InitBuf /\ [][NextShutdown]_vars

(***************************************************************************)
(* _continuous_monitoring.  _check_real_time_violations and                *)
(* _update_monitoring_metrics are defined nowhere in the sources; they are *)
(* taken to change nothing that is modelled here and to return or raise.   *)
(* asyncio.sleep is inside the try block: an iteration that raises goes    *)
(* through the except branch (the error is logged) straight back to the    *)
(* while test.                                                             *)
(***************************************************************************)
MaxLoopErrors == 2

IterationOutcomes == {"ok", "raise"}

\* where the iteration leaves the loop: in its sleep, or back at the while test
AfterIteration(out) == IF out = "ok" THEN "sleep" ELSE "top"

ContinuousMonitoring ==
    /\ cm_pc = "top"
    /\ monitoring_active
    /\ \E out \in IterationOutcomes :
          /\ out = "raise" => cm_errors < MaxLoopErrors
          /\ cm_pc' = AfterIteration(out)
          /\ cm_errors' = IF out = "raise" THEN cm_errors + 1 ELSE cm_errors
    /\ UNCHANGED <<bufVars, vhVars, schedVars, fwVars, replayVars, secVars, clock>>

\* asyncio.sleep(30) is over
ContinuousMonitoringWake ==
    /\ cm_pc = "sleep"
    /\ cm_pc' = "top"
    /\ UNCHANGED <<cm_errors, bufVars, vhVars, schedVars, fwVars, replayVars, secVars, clock>>

NextLoops == LogAuditEvent \/ AuditLogFlusher \/ ContinuousMonitoring
                \/ ContinuousMonitoringWake

SpecLoops == InitBuf /\ [][NextLoops]_vars

(***************************************************************************)
(* SecurityMonitor.  Scores are kept in hundredths (0.95 is 95): every     *)
(* term of _calculate_risk_score is a multiple of 0.01 here, and float     *)
(* addition and min are monotone, so the order of two scores is the order  *)
(* of their hundredths.                                                    *)
(***************************************************************************)
compVars == <<monitoring_active, audit_buffer, events_to_flush, flush_result, audit_logs,
              txn_inserts, txn_aborted, next_event, evicted, db_connection,
              ingest_outcome, last_event, violations_table,
              notifications, violation_counts, handled, next_violation,
              notification_settings, rules, last_check_times, sched_pc, current_time,
              sweep_queue, check_result, last_eval_tick, sweep_violation, fw_pc,
              fw_framework, fw_queue,
              fw_results, fw_raised, cc_pc, cc_queue, cc_results, cm_pc, cm_errors,
              replayed, handle_calls>>

\* a ComplianceMonitor that is constructed and left alone
InitCompliance ==
    /\ InitBuffer
    /\ InitHandler
    /\ notification_settings = [email_enabled |-> TRUE, slack_enabled |-> FALSE]
    /\ InitNoRules

\* class EventType
EventTypes == {"login_attempt", "login_success", "login_failure", "data_access",
               "data_modification", "privilege_escalation", "system_access",
               "configuration_change", "security_violation", "anomaly_detected"}

BaseScore == 10
DefaultRiskFactor == 10
OffHoursRisk == 20
SuspiciousIpRisk == 30
MaxScore == 100

\* event_risk_factors
EventRiskFactors == [login_failure |-> 30, login_success |-> 10, data_access |-> 20,
                     data_modification |-> 40, privilege_escalation |-> 80,
                     configuration_change |-> 60, security_violation |-> 90,
                     anomaly_detected |-> 70]

\* event_risk_factors.get(event.event_type, 0.1)
EventRiskFactor(event_type) ==
    IF event_type \in DOMAIN EventRiskFactors THEN EventRiskFactors[event_type]
    ELSE DefaultRiskFactor

\* current_hour < 6 or current_hour > 22
OutsideBusinessHours(hour) == hour < 6 \/ hour > 22

Min(a, b) == IF a < b THEN a ELSE b

\* _calculate_risk_score without the off-hours term
CalculateRiskScoreNoHours(in) ==
    Min(BaseScore + EventRiskFactor(in.event_type)
          + (IF in.suspicious_ip THEN SuspiciousIpRisk ELSE 0)
          + (IF in.has_user THEN in.user_risk ELSE 0)
          + in.frequency_risk,
        MaxScore)

(***************************************************************************)
(* _calculate_risk_score(event).  The lookups it awaits (_is_suspicious_ip,*)
(* _get_user_risk_score, _calculate_frequency_risk) are inputs:            *)
(* suspicious_ip, user_risk (read only if the event has a user_id) and     *)
(* frequency_risk.                                                         *)
(***************************************************************************)
CalculateRiskScore(in) ==
    Min(BaseScore + EventRiskFactor(in.event_type)
          + (IF OutsideBusinessHours(in.hour) THEN OffHoursRisk ELSE 0)
          + (IF in.suspicious_ip THEN SuspiciousIpRisk ELSE 0)
          + (IF in.has_user THEN in.user_risk ELSE 0)
          + in.frequency_risk,
        MaxScore)

\* hours on both sides of the two comparisons, and the 3am and 2pm of the design
RiskHours == {3, 5, 6, 14, 22, 23}
UserRisks == {0, 25, 50}
FrequencyRisks == {0, 15, 40}

RiskInputs ==
    [event_type : EventTypes, hour : RiskHours, suspicious_ip : BOOLEAN,
     has_user : BOOLEAN, user_risk : UserRisks, frequency_risk : FrequencyRisks]

\* the score of one event is computed
ScoreEvent ==
    /\ risk_score = -1
    /\ risk_score' = CalculateRiskScore(risk_input)
    /\ UNCHANGED <<alert_suppression, alerts, alert_notifications, security_events,
                   completed_events, last_call, create_calls, risk_input, clock>>
    /\ UNCHANGED compVars

InitRisk ==
    /\ InitCompliance
    /\ clock = 0
    /\ alert_suppression = <<>>
    /\ alerts = <<>>
    /\ alert_notifications = <<>>
    /\ security_events = <<>>
    /\ completed_events = {}
    /\ last_call = NoCall
    /\ create_calls = NoCreateCalls
    /\ risk_input \in RiskInputs
    /\ risk_score = -1

SpecRisk == InitRisk /\ [][ScoreEvent]_vars

(***************************************************************************)
(* _create_alert.  Time is in minutes.  The monitor state is passed as a   *)
(* record [alerts, notes, supp, outcome] so that log_security_event can    *)
(* chain calls.  The three datetime.utcnow() reads of one call fall on one *)
(* instant of the clock.                                                   *)
(***************************************************************************)
SuppressionWindow == 15

SM == [alerts |-> alerts, notes |-> alert_notifications, supp |-> alert_suppression,
       outcome |-> "none"]

\* hashlib.md5(f"{title}:{description}"): the hash is taken as injective on the
\* string it is given
AlertKey(title, description) == title \o ":" \o description

\* variant of Suppressed: an alert exactly one window old still suppresses
SuppressedInclusive(supp, key, now) ==
    key \in DOMAIN supp /\ now - supp[key] <= SuppressionWindow

\* alert_key in self.alert_suppression and utcnow() - last_alert_time < window
Suppressed(supp, key, now) ==
    key \in DOMAIN supp /\ now - supp[key] < SuppressionWindow

SecurityAlert(alert_id, title, description, severity, event_ids, created_at) ==
    [alert_id |-> alert_id, title |-> title, description |-> description,
     severity |-> severity, event_ids |-> event_ids, created_at |-> created_at]

(***************************************************************************)
(* _store_alert is called but defined nowhere in the sources.  It is       *)
(* modelled as the design describes it: the alert is persisted.            *)
(***************************************************************************)
StoreAlert(table, alert) == Append(table, alert)

(***************************************************************************)
(* _send_alert_notifications: one dispatch per channel the severity        *)
(* selects.  out names the channel whose transport fails, if any           *)
(* ("email_fails", "slack_fails", "sms_fails").  _send_email_alert catches *)
(* every transport failure and logs it; _send_slack_alert and              *)
(* _send_sms_alert are defined nowhere in the sources and are modelled as  *)
(* the design describes them: failures are logged inside the channel.  A   *)
(* dispatch is recorded with delivered = FALSE when its failure was logged.*)
(***************************************************************************)
ChannelFaults == {"email_fails", "slack_fails", "sms_fails"}

AlertOutcomes == {"ok", "raise"} \cup ChannelFaults

Dispatch(notes, alert, channel, failed) ==
    Append(notes, [alert_id |-> alert.alert_id, channel |-> channel, delivered |-> ~failed])

SendEmailAlert(notes, alert, out) == Dispatch(notes, alert, "email", out = "email_fails")

SendSlackAlert(notes, alert, out) == Dispatch(notes, alert, "slack", out = "slack_fails")

SendSmsAlert(notes, alert, out) == Dispatch(notes, alert, "sms", out = "sms_fails")

SendAlertNotifications(notes, alert, out) ==
    LET n1 == SendEmailAlert(notes, alert, out)
        n2 == IF alert.severity \in {"high", "critical"} THEN SendSlackAlert(n1, alert, out)
              ELSE n1
    IN  IF alert.severity = "critical" THEN SendSmsAlert(n2, alert, out) ELSE n2

\* variant: the failure of a channel leaves _send_alert_notifications
NotifyOutcomeRaising(out) == IF out \in ChannelFaults THEN "raised" ELSE "created"

\* how _create_alert ends once the alert is stored: no channel lets its
\* failure out
NotifyOutcome(out) == "created"

\* variant: the suppression entry is written only when every channel delivered
SuppressionAfterDelivered(supp, alert_key, now, out) ==
    IF out \in ChannelFaults THEN supp ELSE DictSet(supp, alert_key, now)

\* line 401, reached whenever _send_alert_notifications has returned
SuppressionAfter(supp, alert_key, now, out) == DictSet(supp, alert_key, now)

(***************************************************************************)
(* _create_alert(title, description, severity, event_ids) at time now.     *)
(* out is what the environment does to the call: "ok", "raise" (the        *)
(* exception of _store_alert leaves _create_alert before anything is       *)
(* notified or recorded) or the failure of a channel.                      *)
(***************************************************************************)
CreateAlert(st, title, description, severity, event_ids, now, out) ==
    LET alert_key == AlertKey(title, description)
        alert == SecurityAlert(Len(st.alerts) + 1, title, description, severity,
                               event_ids, now)
    IN  IF Suppressed(st.supp, alert_key, now) THEN [st EXCEPT !.outcome = "suppressed"]
        ELSE IF out = "raise" THEN [st EXCEPT !.outcome = "raised"]
        ELSE [alerts  |-> StoreAlert(st.alerts, alert),
              notes   |-> SendAlertNotifications(st.notes, alert, out),
              supp    |-> SuppressionAfter(st.supp, alert_key, now, out),
              outcome |-> NotifyOutcome(out)]

SetSM(st) ==
    /\ alerts' = st.alerts
    /\ alert_notifications' = st.notes
    /\ alert_suppression' = st.supp

(***************************************************************************)
(* Sequential _create_alert calls with titles, descriptions and severities *)
(* drawn from small sets, at instants around the window's edges.           *)
(***************************************************************************)
MaxAlertCalls == 4

AlertTitles == {"Potential Brute Force Attack", "Unusual Activity Time"}
AlertDescriptions == {"from IP 10.0.0.1"}
AlertSeverities == {"medium", "critical"}

AlertInstants == {0, SuppressionWindow - 1, SuppressionWindow, SuppressionWindow + 1,
                  2 * SuppressionWindow}

CreateAlertCallOf(outs, max) ==
    /\ last_call.n < max
    /\ \E title \in AlertTitles, description \in AlertDescriptions,
          severity \in AlertSeverities, out \in outs :
          LET st == CreateAlert(SM, title, description, severity, <<last_call.n + 1>>,
                                clock, out)
          IN  /\ SetSM(st)
              /\ last_call' = [n |-> last_call.n + 1, title |-> title,
                               description |-> description, severity |-> severity,
                               out |-> out, outcome |-> st.outcome, time |-> clock]
    /\ UNCHANGED <<security_events, completed_events, risk_input, risk_score, clock,
                   create_calls>>
    /\ UNCHANGED compVars

\* a call whose channels all work
CreateAlertCall == CreateAlertCallOf(StoreOutcomes, MaxAlertCalls)

\* time passes between two calls
AlertTick ==
    /\ \E t \in AlertInstants : t > clock /\ clock' = t
    /\ UNCHANGED secVars
    /\ UNCHANGED compVars

InitAlert ==
    /\ InitCompliance
    /\ InitSecurity
    /\ clock = 0

NextAlert == CreateAlertCall \/ AlertTick

SpecAlert == InitAlert /\ [][NextAlert]_vars

(***************************************************************************)
(* The same calls with a notification channel that may fail.               *)
(***************************************************************************)
MaxNotifyCalls == 3

CreateAlertCallFaulty == CreateAlertCallOf(AlertOutcomes, MaxNotifyCalls)

NextNotify == CreateAlertCallFaulty \/ AlertTick

SpecNotify == InitAlert /\ [][NextNotify]_vars

(***************************************************************************)
(* _create_alert called by two tasks.  A call runs without suspension from *)
(* its entry to `await self._store_alert(alert)` (lines 377-395), from the *)
(* return of the store to the awaits of _send_alert_notifications (lines   *)
(* 398, 408-416), and from their return to the end (lines 401-403); at the *)
(* awaits the other task may run.                                          *)
(***************************************************************************)
\* lines 377-395: the suppression test, the alert is built, the store is awaited
CreateAlertEnter(c) ==
    /\ create_calls[c].pc = "idle"
    /\ \E title \in AlertTitles, description \in AlertDescriptions,
          severity \in AlertSeverities :
          create_calls' = [create_calls EXCEPT ![c] =
              [pc |-> IF Suppressed(alert_suppression, AlertKey(title, description), clock)
                      THEN "suppressed" ELSE "store",
               title |-> title, description |-> description, severity |-> severity,
               entered |-> clock]]
    /\ UNCHANGED <<alert_suppression, alerts, alert_notifications, security_events,
                   completed_events, last_call, risk_input, risk_score, clock>>
    /\ UNCHANGED compVars

\* the alert a suspended call has built
AlertOfCall(c) ==
    SecurityAlert(c, create_calls[c].title, create_calls[c].description,
                  create_calls[c].severity, <<c>>, create_calls[c].entered)

\* _store_alert returns; the notifications are awaited
CreateAlertStored(c) ==
    /\ create_calls[c].pc = "store"
    /\ alerts' = StoreAlert(alerts, AlertOfCall(c))
    /\ create_calls' = [create_calls EXCEPT ![c].pc = "notify"]
    /\ UNCHANGED <<alert_suppression, alert_notifications, security_events,
                   completed_events, last_call, risk_input, risk_score, clock>>
    /\ UNCHANGED compVars

\* the notifications return; lines 401-403
CreateAlertNotified(c) ==
    /\ create_calls[c].pc = "notify"
    /\ alert_notifications' = SendAlertNotifications(alert_notifications, AlertOfCall(c), "ok")
    /\ alert_suppression' = DictSet(alert_suppression,
                                    AlertKey(create_calls[c].title, create_calls[c].description),
                                    clock)
    /\ create_calls' = [create_calls EXCEPT ![c].pc = "done"]
    /\ UNCHANGED <<alerts, security_events, completed_events, last_call, risk_input,
                   risk_score, clock>>
    /\ UNCHANGED compVars

NextConcurrent ==
    \/ \E c \in CreateCallers : CreateAlertEnter(c)
    \/ \E c \in CreateCallers : CreateAlertStored(c)
    \/ \E c \in CreateCallers : CreateAlertNotified(c)
    \/ AlertTick

SpecConcurrent == InitAlert /\ [][NextConcurrent]_vars

(***************************************************************************)
(* log_security_event.  A stored row is                                    *)
(*   [event_id, event_type, source_ip, user_id, timestamp, risk_score];    *)
(* user_id "None" is Python's None.                                        *)
(***************************************************************************)
CriticalThreshold == 95
BruteForceWindow == 15
BruteForceThreshold == 5

SecurityEvent(event_id, event_type, source_ip, user_id, timestamp) ==
    [event_id |-> event_id, event_type |-> event_type, source_ip |-> source_ip,
     user_id |-> user_id, timestamp |-> timestamp, risk_score |-> 0]

\* _store_event: the INSERT writes event.risk_score as it is at that moment
StoreEvent(table, event) == Append(table, event)

\* event.timestamp.hour, the timestamp counting minutes from midnight
HourOf(timestamp) == (timestamp \div 60) % 24

(***************************************************************************)
(* The lookups that are called but defined nowhere in the sources, as the  *)
(* design describes them, over a fixed environment: one flagged IP, one    *)
(* user with a risk history who is normally active in business hours, and  *)
(* no frequency penalty.                                                   *)
(***************************************************************************)
SuspiciousIps == {"10.0.0.2"}

IsSuspiciousIp(source_ip) == source_ip \in SuspiciousIps

UserRiskScores == [u1 |-> 10, u2 |-> 5]

GetUserRiskScore(user_id) == UserRiskScores[user_id]

GetUserNormalHours(user_id) == 6..22

\* failed logins from the same IP in the last 15 minutes, the one being logged
\* included: it is stored before it is analysed
CountRecentEvents(events, source_ip, event_type, window, now) ==
    Cardinality({i \in DOMAIN events :
                    /\ events[i].source_ip = source_ip
                    /\ events[i].event_type = event_type
                    /\ now - events[i].timestamp <= window})

\* what _calculate_risk_score reads of an event
RiskInputOf(event) ==
    [event_type |-> event.event_type, hour |-> HourOf(event.timestamp),
     suspicious_ip |-> IsSuspiciousIp(event.source_ip),
     has_user |-> event.user_id # "None",
     user_risk |-> IF event.user_id # "None" THEN GetUserRiskScore(event.user_id) ELSE 0,
     frequency_risk |-> 0]

\* an awaited _create_alert: skipped when an earlier await of the call has raised
ThenCreateAlert(st, cond, title, description, severity, event_ids, now, storeOut) ==
    IF st.outcome = "raised" \/ ~cond THEN st
    ELSE CreateAlert(st, title, description, severity, event_ids, now, storeOut)

\* variant of BruteForceDue: more than five failures are needed
BruteForceDueAbove(recent_failures) == recent_failures > BruteForceThreshold

\* recent_failures >= 5
BruteForceDue(recent_failures) == recent_failures >= BruteForceThreshold

BruteForceTitle == "Potential Brute Force Attack"

BruteForceDescription(source_ip) == "Multiple failed login attempts from IP " \o source_ip

\* _check_brute_force_attack
CheckBruteForceAttack(st, event, events, now, storeOut) ==
    ThenCreateAlert(st,
        BruteForceDue(CountRecentEvents(events, event.source_ip, "login_failure",
                                        BruteForceWindow, now)),
        BruteForceTitle, BruteForceDescription(event.source_ip), "high",
        <<event.event_id>>, now, storeOut)

\* variant: a score equal to the threshold is not critical
IsCriticalAbove(score) == score > CriticalThreshold

\* risk_score >= self.risk_thresholds['critical']
IsCritical(score) == score >= CriticalThreshold

CriticalTitle == "Critical Security Event Detected"

CriticalDescription(event_type) == "High-risk security event: " \o event_type

\* _analyze_event: the critical alert, then _check_suspicious_patterns (of its
\* branches the events drawn here take the login_failure one)
AnalyzeEvent(st, event, events, now, fault) ==
    LET st1 == ThenCreateAlert(st,
                   IsCritical(CalculateRiskScore(RiskInputOf(event))),
                   CriticalTitle, CriticalDescription(event.event_type), "critical",
                   <<event.event_id>>, now,
                   IF fault = "store_alert_critical" THEN "raise" ELSE "ok")
    IN  IF event.event_type = "login_failure" /\ st1.outcome # "raised"
        THEN CheckBruteForceAttack(st1, event, events, now,
                 IF fault = "store_alert_brute_force" THEN "raise" ELSE "ok")
        ELSE st1

\* _detect_anomalies: _detect_time_anomalies; the volume and behavioural
\* detectors change nothing that is modelled
DetectAnomalies(st, event, now, fault) ==
    ThenCreateAlert(st,
        /\ event.user_id # "None"
        /\ HourOf(event.timestamp) \notin GetUserNormalHours(event.user_id),
        "Unusual Activity Time",
        "User " \o event.user_id \o " active outside normal hours", "medium",
        <<event.event_id>>, now,
        IF fault = "store_alert_time_anomaly" THEN "raise" ELSE "ok")

\* one more event than the brute-force threshold: the alert and a follow-up
MaxSecEvents == BruteForceThreshold + 1

SourceIps == {"10.0.0.1", "10.0.0.2"}

\* logins of clients that are not signed in: failures from both addresses and
\* a success
LoginInputs ==
    [event_type : {"login_failure"}, source_ip : SourceIps, user_id : {"None"}]
        \cup {[event_type |-> "login_success", source_ip |-> "10.0.0.1", user_id |-> "None"]}
SecFaults == {"none", "store_event", "cache_event", "store_alert_critical",
              "store_alert_brute_force", "store_alert_time_anomaly"}

\* the stored events whose log_security_event call raised
FailedEvents == {i \in DOMAIN security_events : i \notin completed_events}

(***************************************************************************)
(* log_security_event(event), the event's timestamp being the time of the  *)
(* call.  fault is the await that raises, if any; the exception leaves     *)
(* log_security_event and what was done before it stays done.  The event   *)
(* is drawn from inputs, a set of [event_type, source_ip, user_id], and the *)
(* fault from faults.                                                      *)
(***************************************************************************)
LogSecurityEventOf(inputs, faults) ==
    /\ Len(security_events) < MaxSecEvents
    /\ \E in \in inputs, fault \in faults :
          LET event == SecurityEvent(Len(security_events) + 1, in.event_type,
                                     in.source_ip, in.user_id, clock)
              events == StoreEvent(security_events, event)
              st1 == AnalyzeEvent(SM, event, events, clock, fault)
              st2 == DetectAnomalies(st1, event, clock, fault)
          IN  IF fault = "store_event"
              THEN UNCHANGED secVars
              ELSE /\ security_events' = events
                   /\ IF fault = "cache_event"
                      THEN UNCHANGED <<alerts, alert_notifications, alert_suppression,
                                       completed_events, risk_input, risk_score>>
                      ELSE /\ SetSM(st2)
                           /\ risk_input' = RiskInputOf(event)
                           /\ risk_score' = CalculateRiskScore(RiskInputOf(event))
                           /\ completed_events' =
                                 IF st2.outcome = "raised" THEN completed_events
                                 ELSE completed_events \cup {event.event_id}
                   /\ UNCHANGED <<last_call, create_calls>>
    /\ UNCHANGED clock
    /\ UNCHANGED compVars

\* a login is logged; at most one call fails after its event is stored
LogLoginEvent ==
    LogSecurityEventOf(LoginInputs, IF FailedEvents = {} THEN SecFaults ELSE {"none"})

\* 3am and the minutes after it around the window's edges
SecInstants == {3 * 60 + m : m \in {0, BruteForceWindow - 1, BruteForceWindow,
                                    BruteForceWindow + 1}}

\* time passes between two calls
SecTick ==
    /\ \E t \in SecInstants : t > clock /\ clock' = t
    /\ UNCHANGED secVars
    /\ UNCHANGED compVars

InitSec ==
    /\ InitCompliance
    /\ InitSecurity
    /\ clock = 3 * 60

NextSec == LogLoginEvent \/ SecTick

SpecSec == InitSec /\ [][NextSec]_vars

(***************************************************************************)
(* Events around the critical threshold, at 3am: a configuration change by *)
(* user u2 scores 0.1 + 0.6 + 0.2 + 0.05 = 0.95, a security violation 1.0  *)
(* and a failed login from the suspicious address 0.9.                     *)
(***************************************************************************)
MaxCriticalEvents == 3

CriticalInputs ==
    {[event_type |-> "configuration_change", source_ip |-> "10.0.0.1", user_id |-> "u2"],
     [event_type |-> "security_violation", source_ip |-> "10.0.0.1", user_id |-> "None"],
     [event_type |-> "login_failure", source_ip |-> "10.0.0.2", user_id |-> "None"]}

LogCriticalEvent ==
    /\ Len(security_events) < MaxCriticalEvents
    /\ LogSecurityEventOf(CriticalInputs,
                          IF FailedEvents = {} THEN {"none", "store_alert_critical"}
                          ELSE {"none"})

NextCritical == LogCriticalEvent \/ SecTick

SpecCritical == InitSec /\ [][NextCritical]_vars

\* the events of the last batch that the deque has not dropped since
KeptOfBatch ==
    LET kept(x) == x \notin evicted IN SelectSeq(events_to_flush, kept)

\* C1 (buffer retry): after a failed flush the events of the batch are at the
\* front of audit_buffer in their original order (so the next batch starts with
\* them), and every ingested event is in the buffer, in audit_logs, or was
\* dropped by the bounded deque.
BufferRetry ==
    /\ flush_result = "failed" =>
          /\ Len(KeptOfBatch) <= Len(audit_buffer)
          /\ SubSeq(audit_buffer, 1, Len(KeptOfBatch)) = KeptOfBatch
          /\ LET nextBatch == PopBatch(audit_buffer, <<>>)[1]
             IN  /\ Len(nextBatch) >= Len(KeptOfBatch)
                 /\ \A i \in 1..Len(KeptOfBatch) : nextBatch[i] = KeptOfBatch[i]
    /\ \A e \in 1..next_event :
          e \in Range(audit_buffer) \cup Range(audit_logs) \cup evicted

\* a failed flush of a full batch after an earlier successful one, nothing dropped
BufferRetryWitness ==
    /\ flush_result = "failed"
    /\ Len(events_to_flush) = FlushBatchSize
    /\ SubSeq(audit_buffer, 1, FlushBatchSize) = events_to_flush
    /\ audit_logs # <<>>
    /\ evicted = {}

\* C10 (bounded buffer): audit_buffer never holds more than its capacity and is
\* in ingestion order; log_audit_event on a full buffer drops exactly the oldest
\* event and appends the new one as the newest, on a non-full buffer it only appends.
BoundedBuffer ==
    /\ [](/\ Len(audit_buffer) <= AuditBufferMaxlen
          /\ \A i, j \in DOMAIN audit_buffer : i < j => audit_buffer[i] < audit_buffer[j])
    /\ [][next_event' # next_event =>
            IF Len(audit_buffer) = AuditBufferMaxlen
            THEN /\ audit_buffer' = Append(Tail(audit_buffer), next_event')
                 /\ evicted' = evicted \cup {Head(audit_buffer)}
            ELSE /\ audit_buffer' = Append(audit_buffer, next_event')
                 /\ evicted' = evicted]_vars

\* a full buffer that has dropped its oldest event for the newest one
BoundedBufferWitness ==
    /\ Len(audit_buffer) = AuditBufferMaxlen
    /\ evicted # {}
    /\ audit_buffer[Len(audit_buffer)] = next_event
    /\ \A x \in evicted : x < Head(audit_buffer)

\* a step of the sweep's for loop, and the rule it visits
IsSweepRuleStep ==
    sched_pc = "sweep" /\ sweep_queue # <<>> /\ sweep_queue' = Tail(sweep_queue)

SweepViolationPerFailedCheck ==
    [][IsSweepRuleStep =>
         LET rule == rules[Head(sweep_queue)]
             res == check_result'
         IN  IF res.status = "returned" /\ ~res.is_compliant
             THEN /\ Len(handled') = Len(handled) + 1
                  /\ SubSeq(handled', 1, Len(handled)) = handled
                  /\ LET v == handled'[Len(handled')]
                     IN  /\ v.rule_id = rule.rule_id
                         /\ v.framework = rule.framework
                         /\ v.severity = rule.severity
                         /\ v.details = res.details
                         /\ \A i \in 1..Len(handled) : handled[i].violation_id # v.violation_id
             ELSE handled' = handled]_vars

\* rule 1 was found non-compliant with evidence {count: 5}: its violation was
\* handled and stored
SweepViolationWitness ==
    /\ check_result.status = "returned"
    /\ ~check_result.is_compliant
    /\ check_result.rule_id = 1
    /\ handled # <<>>
    /\ handled[Len(handled)].rule_id = 1
    /\ handled[Len(handled)].details = [count |-> 5]
    /\ handled[Len(handled)] \in Range(violations_table)

\* C3 (idempotent violation handling): two _handle_violation calls with one
\* HIGH or CRITICAL violation, both returning, with e-mail notification enabled,
\* leave exactly one notification and exactly one stored row for its violation_id.
IdempotentHandling ==
    (/\ Len(handle_calls) = 2
     /\ \A i \in 1..2 : handle_calls[i] = "returned"
     /\ replayed.severity \in {"high", "critical"}
     /\ notification_settings.email_enabled)
    => /\ Cardinality({i \in DOMAIN notifications :
                         /\ notifications[i].violation_id = replayed.violation_id
                         /\ notifications[i].channel = "email"}) = 1
       /\ Cardinality({i \in DOMAIN violations_table :
                         violations_table[i].violation_id = replayed.violation_id}) = 1

\* C4 (fail-closed checks): every rule whose check raised during a
\* _check_framework_compliance call is in the result's violations with the
\* rule's severity, and is not counted as compliant.
FailClosedChecks ==
    /\ \A r \in fw_raised :
          \E i \in DOMAIN fw_results.violations :
             /\ fw_results.violations[i].rule_id = r
             /\ fw_results.violations[i].severity = rules[r].severity
    /\ fw_results.compliant_rules + Cardinality(fw_raised) <= fw_results.total_rules

\* C5 (framework status thresholds): with n >= 1 rules of which k are compliant
\* the status is COMPLIANT exactly when k = n, PARTIALLY_COMPLIANT exactly when
\* k < n and k/n >= 80%, NON_COMPLIANT otherwise; with 10 rules: 10 compliant,
\* 8 and 9 partially compliant, 7 or fewer non-compliant.
StatusThresholds ==
    (fw_pc \in {"returned", "raised"} /\ fw_results.total_rules >= 1) =>
       LET n == fw_results.total_rules
           k == fw_results.compliant_rules
           st == fw_results.status
       IN  /\ fw_pc = "returned"
           /\ st \in {"compliant", "partially_compliant", "non_compliant"}
           /\ st = "compliant" <=> k = n
           /\ st = "partially_compliant" <=> (k < n /\ 10 * k >= 8 * n)
           /\ n = 10 => st = (IF k = 10 THEN "compliant"
                               ELSE IF k \in {8, 9} THEN "partially_compliant"
                               ELSE "non_compliant")

\* 8 of 10 rules compliant: PARTIALLY_COMPLIANT
StatusThresholdsWitness ==
    /\ fw_pc = "returned"
    /\ fw_results.total_rules = 10
    /\ fw_results.compliant_rules = 8
    /\ fw_results.status = "partially_compliant"

\* the business-hours events that differ from risk_input in the hour only
BusinessHourTwins ==
    {[risk_input EXCEPT !.hour = h] : h \in {h \in RiskHours : ~OutsideBusinessHours(h)}}

\* C9 as stated: the score of every off-hours event is strictly greater than
\* the score of the same event at a business hour, for every event type
\* and every IP, user and frequency term.
RiskMonotonicityStrict ==
    (risk_score # -1 /\ OutsideBusinessHours(risk_input.hour))
        => \A twin \in BusinessHourTwins : risk_score > CalculateRiskScore(twin)

\* C9: the score of an off-hours event is strictly greater than the score of
\* the same event at a business hour whenever the business-hours score is
\* below 1.0; when that score is already clamped at 1.0 the two are equal.
RiskMonotonicity ==
    (risk_score # -1 /\ OutsideBusinessHours(risk_input.hour))
        => \A twin \in BusinessHourTwins :
              IF CalculateRiskScore(twin) < MaxScore
              THEN risk_score > CalculateRiskScore(twin)
              ELSE risk_score = CalculateRiskScore(twin)

\* a 3am login_failure scored above its 2pm twin
RiskMonotonicityWitness ==
    /\ risk_score # -1
    /\ risk_input.hour = 3
    /\ risk_input.event_type = "login_failure"
    /\ risk_score < MaxScore
    /\ risk_score > CalculateRiskScore([risk_input EXCEPT !.hour = 14])

\* the stored alerts that have the key of (title, description)
AlertsWithKey(title, description) ==
    {i \in DOMAIN alerts :
        AlertKey(alerts[i].title, alerts[i].description) = AlertKey(title, description)}

\* C2: a _create_alert call made less than 15 minutes after the last created
\* alert with its key creates no alert, sends no notification and leaves
\* alert_suppression unchanged; a call made when no alert with its key is
\* that recent is not suppressed and, its store succeeding, creates exactly
\* one alert at the time of the call; so two alerts with one key are never
\* less than 15 minutes apart.
SuppressionWindowHolds ==
    /\ [](\A i, j \in DOMAIN alerts :
             (i < j /\ j \in AlertsWithKey(alerts[i].title, alerts[i].description))
                 => alerts[j].created_at - alerts[i].created_at >= SuppressionWindow)
    /\ [][last_call'.n = last_call.n + 1 =>
            LET same == AlertsWithKey(last_call'.title, last_call'.description)
            IN  IF \E i \in same : clock - alerts[i].created_at < SuppressionWindow
                THEN /\ last_call'.outcome = "suppressed"
                     /\ UNCHANGED <<alerts, alert_notifications, alert_suppression>>
                ELSE /\ last_call'.outcome \in {"created", "raised"}
                     /\ last_call'.outcome = "created" =>
                           /\ Len(alerts') = Len(alerts) + 1
                           /\ SubSeq(alerts', 1, Len(alerts)) = alerts
                           /\ alerts'[Len(alerts')].title = last_call'.title
                           /\ alerts'[Len(alerts')].description = last_call'.description
                           /\ alerts'[Len(alerts')].created_at = clock
                     /\ last_call'.outcome = "raised" => UNCHANGED alerts]_vars

\* one key: created at 0, suppressed inside the window, created again when
\* the window has expired, suppressed again
SuppressionWindowWitness ==
    /\ Len(alerts) = 2
    /\ AlertsWithKey(alerts[1].title, alerts[1].description) = {1, 2}
    /\ alerts[1].created_at = 0
    /\ alerts[2].created_at = SuppressionWindow
    /\ last_call.n = 4
    /\ last_call.outcome = "suppressed"
    /\ AlertKey(last_call.title, last_call.description)
           = AlertKey(alerts[1].title, alerts[1].description)

\* the stored brute-force alerts for an address
BruteForceAlerts(source_ip) ==
    {i \in DOMAIN alerts : /\ alerts[i].title = BruteForceTitle
                           /\ alerts[i].description = BruteForceDescription(source_ip)}

\* the login failures from the address of the e-th stored event that were
\* logged in the 15 minutes up to that event, itself included
FailuresUpTo(e) ==
    Cardinality({i \in 1..e :
                    /\ security_events[i].event_type = "login_failure"
                    /\ security_events[i].source_ip = security_events[e].source_ip
                    /\ security_events[e].timestamp - security_events[i].timestamp
                           <= BruteForceWindow})

\* C8: a login_failure that is the fifth or later from its address within 15
\* minutes, its call returning, is covered by a brute-force alert for that
\* address created less than 15 minutes before it or by it; the alerts for
\* one address are at least 15 minutes apart (one per burst, not one per
\* event); each references exactly the login_failure that triggered it, which
\* had at least five such failures behind it; so fewer than five create none.
BruteForceAlerting ==
    /\ \A e \in completed_events :
          (security_events[e].event_type = "login_failure" /\ FailuresUpTo(e) >= 5)
              => \E i \in BruteForceAlerts(security_events[e].source_ip) :
                    /\ alerts[i].created_at <= security_events[e].timestamp
                    /\ security_events[e].timestamp - alerts[i].created_at < 15
    /\ \A source_ip \in SourceIps : \A i, j \in BruteForceAlerts(source_ip) :
          i < j => alerts[j].created_at - alerts[i].created_at >= 15
    /\ \A i \in DOMAIN alerts :
          alerts[i].title = BruteForceTitle
              => \E e \in DOMAIN security_events :
                    /\ alerts[i].event_ids = <<e>>
                    /\ security_events[e].event_type = "login_failure"
                    /\ i \in BruteForceAlerts(security_events[e].source_ip)
                    /\ alerts[i].created_at = security_events[e].timestamp
                    /\ FailuresUpTo(e) >= 5

\* six failures from one address inside the window: one alert, raised by the
\* fifth, and none for the sixth
BruteForceAlertingWitness ==
    /\ Len(security_events) = 6
    /\ completed_events = 1..6
    /\ \A e \in 1..6 : /\ security_events[e].event_type = "login_failure"
                       /\ security_events[e].source_ip = "10.0.0.1"
    /\ security_events[6].timestamp - security_events[1].timestamp < 15
    /\ Len(alerts) = 1
    /\ BruteForceAlerts("10.0.0.1") = {1}
    /\ alerts[1].event_ids = <<5>>

\* C11 (shutdown drain): when shutdown is invoked with events in the audit
\* buffer, every one of them is persisted when it has completed (the code
\* logs no count of dropped events that could account for the others).
ShutdownDrain ==
    [][(db_connection = "open" /\ db_connection' = "closed")
          => Range(audit_buffer) \subseteq Range(audit_logs')]_vars

\* C12 (best-effort results): check_compliance never propagates an exception
\* to its caller, whatever the rule registry and whichever framework is
\* asked for, frameworks without enabled rules included.
CheckComplianceNeverRaises == cc_pc # "raised"

\* C13 (background loop resilience): an iteration of a background loop that
\* raises is caught and logged, and the loop is in its sleep before the next
\* iteration starts.
LoopSleepsAfterFailure ==
    [][cm_errors' # cm_errors => cm_pc' = "sleep"]_vars

ChannelsOf(severity) ==
    {"email"} \cup (IF severity \in {"high", "critical"} THEN {"slack"} ELSE {})
              \cup (IF severity = "critical" THEN {"sms"} ELSE {})

\* the channel a fault is about
FaultChannel(out) ==
    IF out = "email_fails" THEN "email" ELSE IF out = "slack_fails" THEN "slack" ELSE "sms"

ContinuousEveryTick ==
    [][IsSweepRuleStep =>
         LET rule == rules[Head(sweep_queue)]
         IN  (rule.enabled /\ rule.frequency = "continuous")
                 => check_result'.status # "none"]_vars

\* C17: a rule's last_check_time is written only in the step in which that
\* rule's check returns in the current sweep (with the time the sweep read);
\* it is not written when the check is started, while it is in flight, or
\* when it raises.
LastCheckAfterReturn ==
    [][last_check_times' # last_check_times =>
         /\ sched_pc = "checking" /\ sched_pc' = "sweep"
         /\ check_result'.status = "returned"
         /\ LET r == rules[Head(sweep_queue)].rule_id
            IN  /\ check_result'.rule_id = r
                /\ last_check_times' = DictSet(last_check_times, r, current_time)]_vars

\* the check of rule 1 was in flight while the clock moved, then returned:
\* its last_check_time is the time the sweep read
LastCheckAfterReturnWitness ==
    /\ sched_pc = "sweep"
    /\ check_result.status = "returned"
    /\ check_result.rule_id = 1
    /\ 1 \in DOMAIN last_check_times
    /\ last_check_times[1] = current_time
    /\ clock > current_time
    /\ 2 \notin DOMAIN last_check_times
    /\ Len(sweep_queue) = 1

\* C18 (risk score before storage): when log_security_event has stored and
\* analysed an event, the stored row of the event carries the score that
\* _calculate_risk_score computed for it.
StoredScoreIsComputed ==
    [][(/\ Len(security_events') = Len(security_events) + 1
        /\ Len(security_events') \in completed_events')
          => security_events'[Len(security_events')].risk_score = risk_score']_vars

\* C19 (idempotent flush retry): a flush on a working transaction, with no new
\* failure of the database or of the arguments, of a batch that holds an event
\* whose event_id was already inserted succeeds, leaves exactly one stored row
\* for every event of the batch, and leaves the transaction usable.
IdempotentFlushRetry ==
    [][LET batch == PopBatch(audit_buffer, <<>>)
           r == FlushAuditEvents(batch[1], batch[2], audit_logs, txn_inserts, txn_aborted,
                                 [kind |-> "none", pos |-> 0])
       IN  (/\ monitoring_active /\ audit_buffer # <<>>
            /\ ~txn_aborted
            /\ Range(batch[1]) \cap (Range(audit_logs) \cup Range(txn_inserts)) # {}
            /\ events_to_flush' = batch[1]
            /\ flush_result' = r.result
            /\ audit_buffer' = r.buffer
            /\ audit_logs' = r.logs
            /\ txn_inserts' = r.txn
            /\ txn_aborted' = r.aborted)
              => /\ flush_result' = "ok"
                 /\ ~txn_aborted'
                 /\ \A e \in Range(batch[1]) :
                       Cardinality({i \in DOMAIN audit_logs' : audit_logs'[i] = e}) = 1]_vars

\* the number of entries of a sequence that are the event e
Occurrences(seq, e) == Cardinality({i \in DOMAIN seq : seq[i] = e})

\* C20 (no lost updates on the shared buffer): between the steps of
\* log_audit_event calls and flusher iterations every ingested event is in
\* exactly one place (once in audit_buffer, once in the store, or evicted by
\* overflow; a batch is in flight only inside a flusher iteration, which never
\* suspends), and the store holds the events in the order of their ingestion.
NoLostUpdates ==
    /\ \A e \in 1..next_event :
          Occurrences(audit_buffer, e) + Occurrences(audit_logs, e)
              + (IF e \in evicted THEN 1 ELSE 0) = 1
    /\ \A i, j \in DOMAIN audit_logs : i < j => audit_logs[i] < audit_logs[j]

\* C21 (eventual persistence): with the monitor active, the flusher scheduled
\* fairly and failures transient, every ingested event is eventually persisted
\* or evicted by overflow.
EventualPersistence ==
    \A e \in 1..MaxEvents :
        [](e \in Range(audit_buffer) => <>(e \in Range(audit_logs) \/ e \in evicted))

\* the channels enabled in notification_settings, in the order of dispatch
EnabledChannels ==
    (IF notification_settings.email_enabled THEN <<"email">> ELSE <<>>)
        \o (IF notification_settings.slack_enabled THEN <<"slack">> ELSE <<>>)

\* C22 (violation notification by severity): a _handle_violation call that
\* returns has stored and counted the violation, and has handed it to
\* _send_violation_notification (one dispatch on every enabled channel)
\* exactly when its severity is HIGH or CRITICAL; a LOW or MEDIUM violation
\* is not notified on any channel.
NotifyBySeverity ==
    (Len(handle_calls) = 1 /\ handle_calls[1] = "returned")
        => /\ violations_table = <<replayed>>
           /\ violation_counts[replayed.framework] = 1
           /\ IF replayed.severity \in {"high", "critical"}
              THEN notifications = [i \in DOMAIN EnabledChannels |->
                                       [violation_id |-> replayed.violation_id,
                                        channel |-> EnabledChannels[i]]]
              ELSE notifications = <<>>

\* a MEDIUM violation handled with both channels enabled: stored, counted,
\* not notified
NotifyBySeverityWitness ==
    /\ handle_calls = <<"returned">>
    /\ replayed.severity = "medium"
    /\ notification_settings.email_enabled /\ notification_settings.slack_enabled
    /\ violations_table = <<replayed>>
    /\ violation_counts[replayed.framework] = 1
    /\ notifications = <<>>

\* a log_security_event call that stored its event and returned
IsLoggedStep ==
    /\ Len(security_events') = Len(security_events) + 1
    /\ Len(security_events') \in completed_events'

\* the alerts the step created that are critical-event alerts
NewCriticalAlerts ==
    {i \in (Len(alerts) + 1)..Len(alerts') : alerts'[i].title = CriticalTitle}

\* the step's first new alert is the critical alert of the event just stored
CriticalAlertFirst ==
    /\ Len(alerts') > Len(alerts)
    /\ NewCriticalAlerts = {Len(alerts) + 1}
    /\ LET alert == alerts'[Len(alerts) + 1]
       IN  /\ alert.severity = "critical"
           /\ alert.event_ids = <<Len(security_events')>>
           /\ alert.created_at = clock

SuppressionUnderConcurrency ==
    (/\ \A c \in CreateCallers : create_calls[c].pc \in {"done", "suppressed"}
     /\ create_calls[1].title = create_calls[2].title
     /\ create_calls[1].description = create_calls[2].description
     /\ create_calls[1].entered - create_calls[2].entered < SuppressionWindow
     /\ create_calls[2].entered - create_calls[1].entered < SuppressionWindow)
    => /\ Cardinality(AlertsWithKey(create_calls[1].title, create_calls[1].description)) = 1
       /\ Cardinality({alert_notifications[i].alert_id : i \in DOMAIN alert_notifications}) = 1

LastCheckAfterEveryRun ==
    [][(IsSweepRuleStep /\ check_result'.status # "none") =>
         LET r == rules[Head(sweep_queue)].rule_id
         IN  /\ r \in DOMAIN last_check_times'
             /\ last_check_times'[r] = current_time]_vars

\* C28 (after-hours pattern check): a log_audit_event call for a data_access
\* event with hour below 6 or above 22 hands exactly one MEDIUM HIPAA
\* violation of rule custom_001, whose details name the event's event_id, to
\* the violation handler before it returns and sends no notification; a
\* data_access event with hour in 6..22, and an event whose type is not in the
\* immediate-check set, produces no violation.
AfterHoursCheck ==
    [][next_event' # next_event =>
         LET type == last_event'.type
             hour == last_event'.hour
         IN  /\ (type = "data_access" /\ (hour < 6 \/ hour > 22)) =>
                   /\ ingest_outcome' = "returned"
                   /\ Len(handled') = Len(handled) + 1
                   /\ SubSeq(handled', 1, Len(handled)) = handled
                   /\ LET v == handled'[Len(handled')]
                      IN  /\ v.rule_id = "custom_001"
                          /\ v.framework = "hipaa"
                          /\ v.severity = "medium"
                          /\ v.details.event_id = next_event'
                   /\ notifications' = notifications
             /\ (\/ (type = "data_access" /\ hour \in 6..22)
                 \/ type \notin {"data_access", "data_modification", "privilege_escalation"})
                   => /\ handled' = handled
                      /\ violations_table' = violations_table]_vars

\* a data access at 23:00 following one at 22:00: only the second one has a
\* violation, stored and not notified
AfterHoursCheckWitness ==
    /\ next_event = 2
    /\ last_event = [type |-> "data_access", hour |-> 23]
    /\ Len(handled) = 1
    /\ handled[1].details.event_id = 2
    /\ handled[1].severity = "medium"
    /\ violations_table = handled
    /\ notifications = <<>>

\* the statuses of the frameworks checked so far
CheckedStatuses ==
    {cc_results.frameworks[fw].status : fw \in DOMAIN cc_results.frameworks}

\* C29 (overall status is the worst framework status): overall_status is
\* NON_COMPLIANT if a checked framework is NON_COMPLIANT, else
\* PARTIALLY_COMPLIANT if one is PARTIALLY_COMPLIANT, else COMPLIANT, in
\* whatever order the frameworks are checked; and every pass of the loop
\* appends the framework's violations to the result's violations.
OverallIsWorst ==
    /\ [](cc_results.overall_status =
             IF "non_compliant" \in CheckedStatuses THEN "non_compliant"
             ELSE IF "partially_compliant" \in CheckedStatuses THEN "partially_compliant"
             ELSE "compliant")
    /\ [][cc_queue' # cc_queue =>
            /\ Head(cc_queue) \in DOMAIN cc_results'.frameworks
            /\ cc_results'.violations =
                  cc_results.violations \o cc_results'.frameworks[Head(cc_queue)].violations]_vars

\* three frameworks were checked, one of each status: the overall status is
\* NON_COMPLIANT and the three violations of the two failing frameworks are listed
OverallIsWorstWitness ==
    /\ cc_queue = <<>>
    /\ DOMAIN cc_results.frameworks = Frameworks
    /\ cc_results.frameworks["hipaa"].status = "non_compliant"
    /\ cc_results.frameworks["sox"].status = "partially_compliant"
    /\ cc_results.frameworks["gdpr"].status = "compliant"
    /\ cc_results.overall_status = "non_compliant"
    /\ Len(cc_results.violations) = 3
    /\ cc_results.violations[3].framework = "sox"

\* a sweep is started only by the sleeping loop, with nothing of the previous
\* sweep left to do
SweepsNeverOverlap ==
    [][current_time' # current_time \/ (sched_pc = "sleep" /\ sched_pc' = "sweep") =>
          sched_pc = "sleep" /\ sweep_queue = <<>> /\ sweep_violation = NoViolation]_vars

\* C30 (at most one evaluation of a rule in flight): a sweep starts only after
\* the previous one has completed; the on-demand call never evaluates a rule
\* whose evaluation by the sweep is still in flight; and the sweep never
\* stores a violation of a rule for which a violation detected during that
\* evaluation has been recorded already.
OneEvaluationInFlight ==
    /\ SweepsNeverOverlap
    /\ [][(sched_pc = "handling" /\ fw_pc = "rules" /\ fw_queue # <<>>
             /\ fw_queue' = Tail(fw_queue)) =>
            rules[Head(fw_queue)].rule_id # sweep_violation.rule_id]_vars
    /\ [][(sched_pc = "handling" /\ sched_pc' = "sweep") =>
            ~\E i \in DOMAIN violations_table :
                /\ violations_table[i].rule_id = sweep_violation.rule_id
                /\ violations_table[i].violation_id > sweep_violation.violation_id]_vars

====
